---- MODULE Spec2Model ----
(***************************************************************************)
(* DeepC: sequential model, layers, optimizer state and the training loop. *)
(*                                                                         *)
(* Numerical contents of matrices are abstracted to symbolic values: a     *)
(* data matrix records which input rows it was computed from and through   *)
(* which layers, a parameter matrix records how many optimizer updates it  *)
(* has received, a gradient records which backward pass produced it.       *)
(* Shapes (rows, cols) are kept exactly.                                   *)
(* exit(EXIT_FAILURE) is the state status = "exited", in which no further  *)
(* operation runs.                                                         *)
(***************************************************************************)
EXTENDS Integers, Naturals, Sequences, FiniteSets, TLC

VARIABLES status, layers, model, optimizer, pc, fit, call, events, ranges, hist,
          disk, heap, split, rng, unit, mem

vars == <<status, layers, model, optimizer, pc, fit, call, events, ranges, hist,
          disk, heap, split, rng, unit, mem>>

(* what no operation of models.c on a model in memory touches *)
aux == <<disk, heap, split, rng, unit, mem>>

(* ------------------------------- bounds -------------------------------- *)
MaxLayers == 2
MaxSamples == 3
MaxSteps == 2

(* --------------------------- program constants ------------------------- *)
max_layers == 100

(* learning rates are counted in units of 0.01 *)
DefaultLearningRate == 1

NULL == 0

(* a pointer to a live OptimizerState *)
Allocated == 1

Activations == {"LINEAR"}
Optimizers == {"SGD", "ADAM"}
LossFunctions == {"BINARY_CROSSENTROPY"}
LearningRates == {-1, 0, 2}

(* layer and data widths: the code only compares widths for equality *)
Dims == {1, 2}

(* ------------------------------- matrices ------------------------------ *)
NoMatrix == [rows |-> 0, cols |-> 0, src |-> <<>>, path |-> <<>>, pre |-> FALSE,
             nan |-> FALSE]

NoGradient == [rows |-> 0, cols |-> 0, origin |-> NULL, src |-> <<>>]

DataMatrix(r, c, lo, hi) ==
    [rows |-> r, cols |-> c, src |-> <<lo, hi>>, path |-> <<>>, pre |-> FALSE,
     nan |-> FALSE]

(* matrix_has_nan: nan is whether some element of the matrix is a NaN *)
matrix_has_nan(m) == m.nan

copy_matrix(m) == m

(* -------------------------------- layers ------------------------------- *)
Dense(units, activation, input_dim) ==
    [activation  |-> activation,
     input_size  |-> input_dim,
     output_size |-> units,
     next        |-> NULL,
     weights     |-> [rows |-> units, cols |-> input_dim, ver |-> 0],
     biases      |-> [rows |-> units, cols |-> 1, ver |-> 0],
     dweights    |-> [rows |-> units, cols |-> input_dim, g |-> <<>>],
     dbiases     |-> [rows |-> units, cols |-> 1, g |-> <<>>],
     input       |-> NoMatrix,
     output      |-> NoMatrix,
     z           |-> NoMatrix]

(* forward pass that keeps an input cache it already holds *)
forward_pass_keeps_input(layer, id, input) ==
    IF input.cols # layer.input_size
    THEN [ok |-> FALSE, layer |-> layer, output |-> NoMatrix]
    ELSE LET zval == [rows |-> input.rows,
                      cols |-> layer.weights.rows,
                      src  |-> input.src,
                      path |-> Append(input.path, id),
                      pre  |-> TRUE,
                      nan  |-> input.nan]
             out  == [zval EXCEPT !.pre = FALSE]
         IN [ok     |-> TRUE,
             layer  |-> [layer EXCEPT !.input = IF @ = NoMatrix
                                                THEN copy_matrix(input) ELSE @,
                                      !.z = copy_matrix(zval),
                                      !.output = copy_matrix(out)],
             output |-> out]

forward_pass(layer, id, input) ==
    IF input.cols # layer.input_size
    THEN [ok |-> FALSE, layer |-> layer, output |-> NoMatrix]
    ELSE LET zval == [rows |-> input.rows,
                      cols |-> layer.weights.rows,
                      src  |-> input.src,
                      path |-> Append(input.path, id),
                      pre  |-> TRUE,
                      nan  |-> input.nan]
             out  == [zval EXCEPT !.pre = FALSE]
         IN [ok     |-> TRUE,
             layer  |-> [layer EXCEPT !.input = copy_matrix(input),
                                      !.z = copy_matrix(zval),
                                      !.output = copy_matrix(out)],
             output |-> out]

backward_pass(layer, id, gradient) ==
    IF layer.z = NoMatrix \/ layer.input = NoMatrix
    THEN [ok |-> FALSE, layer |-> layer, prev_gradient |-> NoGradient]
    ELSE [ok |-> TRUE,
          layer |-> [layer EXCEPT
                       !.dweights.g = <<gradient.origin>>,
                       !.dbiases.g  = <<gradient.origin>>],
          prev_gradient |-> [rows   |-> gradient.rows,
                             cols   |-> layer.weights.cols,
                             origin |-> id,
                             src    |-> gradient.src]]

(* ------------------------------ optimizer ------------------------------ *)
NoMoments == [i \in {} |-> 0]

NoOptimizer == [type |-> "SGD", learning_rate |-> 0, timestep |-> 0,
                max_layers |-> 0, moments |-> NoMoments]

create_optimizer_ok(learning_rate) == learning_rate > 0

(* optimizer created with its step counter already at one *)
create_optimizer_started(type, learning_rate) ==
    [type |-> type, learning_rate |-> learning_rate, timestep |-> 1,
     max_layers |-> max_layers, moments |-> NoMoments]

create_optimizer(type, learning_rate) ==
    [type |-> type, learning_rate |-> learning_rate, timestep |-> 0,
     max_layers |-> max_layers, moments |-> NoMoments]

(* moment initialisation that allocates zeroed buffers on every call *)
initialize_adam_moments_always(opt, layer, layer_index) ==
    [opt EXCEPT !.moments =
       [i \in (DOMAIN opt.moments) \cup {layer_index} |->
           IF i = layer_index
           THEN [wrows |-> layer.weights.rows, wcols |-> layer.weights.cols,
                 brows |-> layer.biases.rows,  bcols |-> layer.biases.cols,
                 nupd  |-> 0]
           ELSE opt.moments[i]]]

initialize_adam_moments(opt, layer, layer_index) ==
    IF layer_index \in DOMAIN opt.moments
    THEN opt
    ELSE [opt EXCEPT !.moments =
            [i \in (DOMAIN opt.moments) \cup {layer_index} |->
                IF i = layer_index
                THEN [wrows |-> layer.weights.rows, wcols |-> layer.weights.cols,
                      brows |-> layer.biases.rows,  bcols |-> layer.biases.cols,
                      nupd  |-> 0]
                ELSE opt.moments[i]]]

(* SGD update that counts its calls in the optimizer's timestep *)
update_weights_sgd_counts(layer, opt) ==
    [ok    |-> TRUE,
     layer |-> [layer EXCEPT !.weights.ver = @ + 1, !.biases.ver = @ + 1],
     opt   |-> [opt EXCEPT !.timestep = @ + 1]]

update_weights_sgd(layer, opt) ==
    [ok    |-> TRUE,
     layer |-> [layer EXCEPT !.weights.ver = @ + 1, !.biases.ver = @ + 1],
     opt   |-> opt]

(* Adam update that advances the timestep once per batch step only *)
update_weights_adam_step_per_batch(layer, opt, layer_index) ==
    IF ~(layer_index < opt.max_layers)
    THEN [ok |-> FALSE, layer |-> layer, opt |-> opt]
    ELSE LET o1 == initialize_adam_moments(opt, layer, layer_index)
             o2 == [o1 EXCEPT !.timestep = IF layer_index = 0 THEN @ + 1 ELSE @,
                              !.moments[layer_index].nupd = @ + 1]
         IN [ok    |-> TRUE,
             layer |-> [layer EXCEPT !.weights.ver = @ + 1, !.biases.ver = @ + 1],
             opt   |-> o2]

(* Adam update that does not compare layer_index with max_layers *)
update_weights_adam_unbounded(layer, opt, layer_index) ==
    LET o1 == initialize_adam_moments(opt, layer, layer_index)
        o2 == [o1 EXCEPT !.timestep = @ + 1,
                         !.moments[layer_index].nupd = @ + 1]
    IN [ok    |-> TRUE,
        layer |-> [layer EXCEPT !.weights.ver = @ + 1, !.biases.ver = @ + 1],
        opt   |-> o2]

update_weights_adam(layer, opt, layer_index) ==
    IF ~(layer_index < opt.max_layers)
    THEN [ok |-> FALSE, layer |-> layer, opt |-> opt]
    ELSE LET o1 == initialize_adam_moments(opt, layer, layer_index)
             o2 == [o1 EXCEPT !.timestep = @ + 1,
                              !.moments[layer_index].nupd = @ + 1]
         IN [ok    |-> TRUE,
             layer |-> [layer EXCEPT !.weights.ver = @ + 1, !.biases.ver = @ + 1],
             opt   |-> o2]

update_weights(layer, opt, layer_index) ==
    CASE opt.type = "SGD"  -> update_weights_sgd(layer, opt)
      [] opt.type = "ADAM" -> update_weights_adam(layer, opt, layer_index)
      [] OTHER             -> [ok |-> FALSE, layer |-> layer, opt |-> opt]

(* -------------------------------- losses ------------------------------- *)
LossOrigin == -1

(* loss checks that compare the shapes only *)
compute_loss_ok_shapes_only(y_true, y_pred) ==
    y_true.rows = y_pred.rows /\ y_true.cols = y_pred.cols

compute_loss_ok(y_true, y_pred) ==
    /\ y_true.rows = y_pred.rows /\ y_true.cols = y_pred.cols
    /\ ~matrix_has_nan(y_true)
    /\ ~matrix_has_nan(y_pred)

compute_loss_gradient(y_true, y_pred) ==
    [rows |-> y_true.rows, cols |-> y_true.cols,
     origin |-> LossOrigin, src |-> y_pred.src]

(* ------------------------------ event log ------------------------------ *)
(* An entry of the log of calls made by one batch step: the callee, the    *)
(* layer it ran on, the gradient it was handed and returned, the optimizer *)
(* timestep it left, and the versions of every layer's weights and biases  *)
(* at the call.                                                            *)
Parameters(ls) == [i \in 1..Len(ls) |-> <<ls[i].weights.ver, ls[i].biases.ver>>]

Event(ev, layer, index, gin, gout, t, ls) ==
    [ev |-> ev, layer |-> layer, index |-> index, gin |-> gin, gout |-> gout,
     t |-> t, p |-> Parameters(ls)]

(* -------------------------------- model -------------------------------- *)
(* A name is the sequence of pieces that successive fgets calls into a      *)
(* 256-byte buffer return for it: one piece, unless the name holds a        *)
(* newline or is 255 characters or longer.                                  *)
DefaultName == <<"sequential_model">>

create_model(name) ==
    [name           |-> name,
     input_layer    |-> NULL,
     output_layer   |-> NULL,
     num_layers     |-> 0,
     learning_rate  |-> DefaultLearningRate,
     loss_function  |-> "MEAN_SQUARED_ERROR",
     optimizer_type |-> "SGD",
     optimizer      |-> NULL,
     is_compiled    |-> 0]

RECURSIVE ChainFrom(_, _)
ChainFrom(ls, current) ==
    IF current = NULL THEN <<>> ELSE <<current>> \o ChainFrom(ls, ls[current].next)

Chain == ChainFrom(layers, model.input_layer)

add_layer_ok(m, ls, layer) ==
    m.input_layer = NULL \/ ls[m.output_layer].output_size = layer.input_size

(* add_layer that links the new layer but leaves output_layer on the old tail *)
add_layer_stale_tail(m, ls, layer) ==
    LET id == Len(ls) + 1
    IN IF m.input_layer = NULL
       THEN [model  |-> [m EXCEPT !.input_layer = id, !.output_layer = id,
                                  !.num_layers = @ + 1],
             layers |-> Append(ls, layer)]
       ELSE [model  |-> [m EXCEPT !.num_layers = @ + 1],
             layers |-> Append([ls EXCEPT ![m.output_layer].next = id], layer)]

add_layer(m, ls, layer) ==
    LET id == Len(ls) + 1
    IN IF m.input_layer = NULL
       THEN [model  |-> [m EXCEPT !.input_layer = id, !.output_layer = id,
                                  !.num_layers = @ + 1],
             layers |-> Append(ls, layer)]
       ELSE [model  |-> [m EXCEPT !.output_layer = id, !.num_layers = @ + 1],
             layers |-> Append([ls EXCEPT ![m.output_layer].next = id], layer)]

compile_ok(m, learning_rate) ==
    m.input_layer # NULL /\ learning_rate > 0

(* compile that does not store the learning rate in the model *)
compile_keeps_learning_rate(m, opt, loss, learning_rate) ==
    [m EXCEPT !.optimizer_type = opt,
              !.loss_function  = loss,
              !.optimizer      = Allocated,
              !.is_compiled    = 1]

compile(m, opt, loss, learning_rate) ==
    [m EXCEPT !.optimizer_type = opt,
              !.loss_function  = loss,
              !.learning_rate  = learning_rate,
              !.optimizer      = Allocated,
              !.is_compiled    = 1]

RECURSIVE predict_loop(_, _, _, _)
predict_loop(ls, current_layer, current_output, log) ==
    IF current_layer = NULL
    THEN [ok |-> TRUE, layers |-> ls, output |-> current_output, log |-> log]
    ELSE LET r == forward_pass(ls[current_layer], current_layer, current_output)
         IN IF ~r.ok
            THEN [ok |-> FALSE, layers |-> ls, output |-> NoMatrix, log |-> log]
            ELSE predict_loop([ls EXCEPT ![current_layer] = r.layer],
                              ls[current_layer].next, r.output,
                              Append(log, Event("forward_pass", current_layer, 0, 0, 0, 0, ls)))

predict(m, ls, input) ==
    IF m.input_layer = NULL
    THEN [ok |-> FALSE, layers |-> ls, output |-> NoMatrix, log |-> <<>>]
    ELSE predict_loop(ls, m.input_layer, copy_matrix(input), <<>>)

(* evaluate that also writes the layers' gradient buffers *)
evaluate_with_gradients(m, ls, X, y) ==
    LET p == predict(m, ls, X)
    IN IF ~p.ok
       THEN [ok |-> FALSE, layers |-> p.layers, log |-> p.log]
       ELSE [ok |-> compute_loss_ok(y, p.output),
             layers |-> [i \in 1..Len(p.layers) |->
                            [p.layers[i] EXCEPT !.dweights.g = <<LossOrigin>>]],
             log |-> Append(p.log, Event("compute_loss", 0, 0, 0, 0, 0, p.layers))]

evaluate(m, ls, X, y) ==
    LET p == predict(m, ls, X)
    IN IF ~p.ok
       THEN [ok |-> FALSE, layers |-> p.layers, log |-> p.log]
       ELSE [ok |-> compute_loss_ok(y, p.output), layers |-> p.layers,
             log |-> Append(p.log, Event("compute_loss", 0, 0, 0, 0, 0, p.layers))]

RECURSIVE get_layers_array(_, _, _)
get_layers_array(ls, current, count) ==
    IF count <= 0 THEN <<>>
    ELSE <<current>> \o get_layers_array(ls, IF current = NULL THEN NULL ELSE ls[current].next,
                                         count - 1)

RECURSIVE backward_loop(_, _, _, _, _)
backward_loop(ls, array, i, gradient, log) ==
    IF i < 1
    THEN [ok |-> TRUE, layers |-> ls, log |-> log]
    ELSE IF array[i] = NULL
         THEN [ok |-> FALSE, layers |-> ls, log |-> log]
         ELSE LET r == backward_pass(ls[array[i]], array[i], gradient)
              IN IF ~r.ok
                 THEN [ok |-> FALSE, layers |-> ls, log |-> log]
                 ELSE backward_loop([ls EXCEPT ![array[i]] = r.layer], array, i - 1,
                                    r.prev_gradient,
                                    Append(log, Event("backward_pass", array[i], 0,
                                                      gradient.origin,
                                                      r.prev_gradient.origin, 0, ls)))

(* backward propagation that walks the layers head to tail *)
backward_propagation_head_first(m, ls, loss_gradient) ==
    LET array    == get_layers_array(ls, m.input_layer, m.num_layers)
        reversed == [j \in 1..Len(array) |-> array[Len(array) + 1 - j]]
    IN backward_loop(ls, reversed, Len(reversed), copy_matrix(loss_gradient), <<>>)

backward_propagation(m, ls, loss_gradient) ==
    LET array == get_layers_array(ls, m.input_layer, m.num_layers)
    IN backward_loop(ls, array, Len(array), copy_matrix(loss_gradient), <<>>)

RECURSIVE update_loop(_, _, _, _, _)
update_loop(ls, opt, current, layer_index, log) ==
    IF current = NULL
    THEN [ok |-> TRUE, layers |-> ls, opt |-> opt, log |-> log]
    ELSE LET r == update_weights(ls[current], opt, layer_index)
         IN IF ~r.ok
            THEN [ok |-> FALSE, layers |-> ls, opt |-> opt, log |-> log]
            ELSE update_loop([ls EXCEPT ![current] = r.layer], r.opt,
                             ls[current].next, layer_index + 1,
                             Append(log, Event("update_weights", current, layer_index,
                                               0, 0, r.opt.timestep, ls)))

update_model_weights(m, ls, opt) ==
    IF m.optimizer = NULL
    THEN [ok |-> FALSE, layers |-> ls, opt |-> opt, log |-> <<>>]
    ELSE update_loop(ls, opt, m.input_layer, 0, <<>>)

(* ------------------------------ persistence ---------------------------- *)
(* A model file: the header fields and the successive layer blocks.  The   *)
(* header's layer count is the number of blocks that follow.               *)
Blocks == [input_size : Dims, output_size : Dims, activation : Activations]

BlockSeqs == UNION {[1..n -> Blocks] : n \in 0..MaxLayers}

Files == {f \in [is_compiled : {0, 1}, optimizer_type : Optimizers,
                  loss_function : {"MEAN_SQUARED_ERROR"}, learning_rate : {0, 2},
                  blocks : BlockSeqs] :
            f.is_compiled = 0 => (f.optimizer_type = "SGD" /\ f.learning_rate = 2)}

RECURSIVE load_layers(_, _, _, _)
load_layers(m, ls, blocks, layer_idx) ==
    IF layer_idx > Len(blocks)
    THEN [model |-> m, layers |-> ls]
    ELSE LET b     == blocks[layer_idx]
             layer == Dense(b.output_size, b.activation, b.input_size)
             id    == Len(ls) + 1
         IN IF m.input_layer = NULL
            THEN load_layers([m EXCEPT !.input_layer = id, !.output_layer = id],
                             Append(ls, layer), blocks, layer_idx + 1)
            ELSE load_layers([m EXCEPT !.output_layer = id],
                             Append([ls EXCEPT ![m.output_layer].next = id], layer),
                             blocks, layer_idx + 1)

load_model(file) ==
    LET m0 == [create_model(DefaultName) EXCEPT
                                   !.num_layers     = Len(file.blocks),
                                   !.is_compiled    = file.is_compiled,
                                   !.optimizer_type = file.optimizer_type,
                                   !.loss_function  = file.loss_function,
                                   !.learning_rate  = file.learning_rate]
        r  == load_layers(m0, <<>>, file.blocks, 1)
    IN IF file.is_compiled # 0
       THEN [ok        |-> create_optimizer_ok(file.learning_rate),
             model     |-> [r.model EXCEPT !.optimizer = Allocated],
             layers    |-> r.layers,
             optimizer |-> create_optimizer(file.optimizer_type, file.learning_rate)]
       ELSE [ok |-> TRUE, model |-> r.model, layers |-> r.layers,
             optimizer |-> NoOptimizer]

(* --------------------------------- files ------------------------------- *)
(* A text file is the sequence of its lines.  A line keeps what the readers *)
(* use of it: its text (strcmp, strcpy), the number atoi gives for it, the  *)
(* double atof gives for it, and for a "WEIGHTS r c" or "BIASES r c" line   *)
(* the two numbers sscanf reads.  A double written with %.17g is the value  *)
(* v of element number i of its matrix (i = 0 for the learning rate);       *)
(* weights have magnitude below 1, so atoi of such a line is 0.             *)
TextLine(s) == [kind |-> "text", s |-> s, a |-> 0, b |-> 0]

IntLine(n) == [kind |-> "int", s |-> ToString(n), a |-> n, b |-> 0]

ValueLine(v, i) == [kind |-> "value", s |-> "", a |-> v, b |-> i]

DimsLine(tag, r, c) == [kind |-> tag, s |-> tag, a |-> r, b |-> c]

atoi(line) == IF line.kind = "int" THEN line.a ELSE 0

(* learning rates are counted in units of 0.01: "1" reads as 100 units *)
atof(line) ==
    CASE line.kind = "value" -> [v |-> line.a, i |-> line.b]
      [] line.kind = "int"   -> [v |-> 100 * line.a, i |-> 0]
      [] OTHER               -> [v |-> 0, i |-> 0]

ActivationCode(activation) ==
    CASE activation = "LINEAR"  -> 0
      [] activation = "SIGMOID" -> 1
      [] activation = "RELU"    -> 2
      [] activation = "TANH"    -> 3
      [] activation = "SOFTMAX" -> 4
      [] OTHER                  -> 5

ActivationOf(n) ==
    CASE n = 0 -> "LINEAR"
      [] n = 1 -> "SIGMOID"
      [] n = 2 -> "RELU"
      [] n = 3 -> "TANH"
      [] n = 4 -> "SOFTMAX"
      [] OTHER -> "INVALID"

OptimizerCode(type) == IF type = "SGD" THEN 0 ELSE IF type = "ADAM" THEN 1 ELSE 2

OptimizerOf(n) == IF n = 0 THEN "SGD" ELSE IF n = 1 THEN "ADAM" ELSE "INVALID"

LossCode(loss) ==
    CASE loss = "MEAN_SQUARED_ERROR"       -> 0
      [] loss = "BINARY_CROSSENTROPY"      -> 1
      [] loss = "CATEGORICAL_CROSSENTROPY" -> 2
      [] OTHER                             -> 3

LossOf(n) ==
    CASE n = 0 -> "MEAN_SQUARED_ERROR"
      [] n = 1 -> "BINARY_CROSSENTROPY"
      [] n = 2 -> "CATEGORICAL_CROSSENTROPY"
      [] OTHER -> "INVALID"

NoFile == <<>>

(* the model file, and whether it was cut short after it was written *)
NoDisk == [text |-> NoFile, cut |-> FALSE]

(* fprintf of a matrix: its dimension line, then one line per element *)
matrix_lines(tag, matrix) ==
    <<DimsLine(tag, matrix.rows, matrix.cols)>>
    \o [k \in 1..(matrix.rows * matrix.cols) |-> ValueLine(matrix.ver, k)]

RECURSIVE save_layers(_, _)
save_layers(ls, current) ==
    IF current = NULL THEN <<>>
    ELSE <<TextLine("LAYER_START"), TextLine("dense"),
           IntLine(ls[current].input_size), IntLine(ls[current].output_size),
           IntLine(ActivationCode(ls[current].activation))>>
         \o matrix_lines("WEIGHTS", ls[current].weights)
         \o matrix_lines("BIASES", ls[current].biases)
         \o <<TextLine("LAYER_END")>>
         \o save_layers(ls, ls[current].next)

save_model(m, ls) ==
    <<TextLine("DEEPC_MODEL_V2")>>
    \o [k \in 1..Len(m.name) |-> TextLine(m.name[k])]
    \o <<IntLine(m.num_layers), IntLine(m.is_compiled),
         IntLine(OptimizerCode(m.optimizer_type)),
         IntLine(LossCode(m.loss_function)),
         ValueLine(m.learning_rate, 0)>>
    \o save_layers(ls, m.input_layer)

RECURSIVE save_weight_blocks(_, _)
save_weight_blocks(ls, current) ==
    IF current = NULL THEN <<>>
    ELSE matrix_lines("WEIGHTS", ls[current].weights)
         \o matrix_lines("BIASES", ls[current].biases)
         \o save_weight_blocks(ls, ls[current].next)

save_weights(m, ls) ==
    <<TextLine("DEEPC_WEIGHTS_V2"), IntLine(m.num_layers)>>
    \o save_weight_blocks(ls, m.input_layer)

(* The reader's position and its line buffer.  fgets at the end of the     *)
(* file returns NULL and leaves the buffer as it was; the callers do not   *)
(* test it after the first line.                                           *)
Cursor(pos, line) == [pos |-> pos, line |-> line]

fgets_nth(text, st, j) ==
    IF st.pos + j - 1 <= Len(text) THEN text[st.pos + j - 1]
    ELSE IF st.pos <= Len(text) THEN text[Len(text)] ELSE st.line

(* k successive fgets calls *)
fgets(text, st, k) ==
    IF k <= 0 THEN st
    ELSE Cursor(IF st.pos + k <= Len(text) + 1 THEN st.pos + k ELSE Len(text) + 1,
                fgets_nth(text, st, k))

(* sscanf(line, "<tag> %d %d", &rows, &cols): on a line of another form    *)
(* rows and cols keep the indeterminate values junk they were declared     *)
(* with.                                                                   *)
sscanf(line, tag, junk) ==
    IF line.kind = tag THEN <<line.a, line.b>> ELSE junk

(* values a parameter matrix holds that no saved model holds: a mix of     *)
(* read and unread elements, or the random initial weights of Dense         *)
Unknown == -1

(* The loops that read rows * cols lines into matrix->data[i][j].  Writing *)
(* outside the matrix is undefined: ok is FALSE.                           *)
read_matrix(text, st, matrix, rows, cols) ==
    LET k == IF rows > 0 /\ cols > 0 THEN rows * cols ELSE 0
    IN IF k > 0 /\ (rows > matrix.rows \/ cols > matrix.cols)
       THEN [ok |-> FALSE, matrix |-> matrix, st |-> st]
       ELSE [ok |-> TRUE,
             st |-> fgets(text, st, k),
             matrix |->
               IF k = 0 THEN matrix
               ELSE IF /\ rows = matrix.rows /\ cols = matrix.cols
                       /\ \A j \in 1..k :
                             atof(fgets_nth(text, st, j)) =
                                [v |-> atof(fgets_nth(text, st, 1)).v, i |-> j]
                    THEN [matrix EXCEPT !.ver = atof(fgets_nth(text, st, 1)).v]
                    ELSE [matrix EXCEPT !.ver = Unknown]]

Dense_ok(units, input_dim) == units > 0 /\ input_dim > 0

(* Dense as load_model sees it: weights freshly drawn by                   *)
(* initialize_weights_xavier, biases zero                                  *)
Dense_random(units, activation, input_dim) ==
    [Dense(units, activation, input_dim) EXCEPT !.weights.ver = Unknown]

(* load_model's loop over the declared layers *)
RECURSIVE load_model_layers(_, _, _, _, _, _)
load_model_layers(text, st, m, ls, layer_idx, junk) ==
    IF ~(layer_idx < m.num_layers)
    THEN [outcome |-> "ok", model |-> m, layers |-> ls]
    ELSE LET s_in   == fgets(text, st, 3)
             s_out  == fgets(text, s_in, 1)
             s_act  == fgets(text, s_out, 1)
             input_size  == atoi(s_in.line)
             output_size == atoi(s_out.line)
             activation  == ActivationOf(atoi(s_act.line))
         IN IF ~Dense_ok(output_size, input_size)
            THEN [outcome |-> "exit", model |-> m, layers |-> ls]
            ELSE LET layer == Dense_random(output_size, activation, input_size)
                     s_w   == fgets(text, s_act, 1)
                     w     == sscanf(s_w.line, "WEIGHTS", junk)
                     rw    == read_matrix(text, s_w, layer.weights, w[1], w[2])
                     s_b   == fgets(text, rw.st, 1)
                     b     == sscanf(s_b.line, "BIASES", junk)
                     rb    == read_matrix(text, s_b, layer.biases, b[1], b[2])
                     s_end == fgets(text, rb.st, 1)
                     new   == [layer EXCEPT !.weights = rw.matrix,
                                            !.biases = rb.matrix]
                     id    == Len(ls) + 1
                 IN IF ~rw.ok \/ ~rb.ok
                    THEN [outcome |-> "undefined", model |-> m, layers |-> ls]
                    ELSE IF m.input_layer = NULL
                    THEN load_model_layers(text, s_end,
                            [m EXCEPT !.input_layer = id, !.output_layer = id],
                            Append(ls, new), layer_idx + 1, junk)
                    ELSE load_model_layers(text, s_end,
                            [m EXCEPT !.output_layer = id],
                            Append([ls EXCEPT ![m.output_layer].next = id], new),
                            layer_idx + 1, junk)

(* load_model on the lines of a file.  outcome: "ok" a model is returned,  *)
(* "null" NULL is returned, "exit" a check ended the process, "undefined"  *)
(* the call wrote outside a matrix.                                        *)
load_model_text(text, junk) ==
    LET none == [model |-> create_model(DefaultName), layers |-> <<>>,
                 optimizer |-> NoOptimizer]
    IN IF Len(text) = 0 \/ text[1] # TextLine("DEEPC_MODEL_V2")
       THEN [outcome |-> "null"] @@ none
       ELSE LET s_name == fgets(text, Cursor(2, text[1]), 1)
                s_num  == fgets(text, s_name, 1)
                s_comp == fgets(text, s_num, 1)
                s_opt  == fgets(text, s_comp, 1)
                s_loss == fgets(text, s_opt, 1)
                s_lr   == fgets(text, s_loss, 1)
                is_compiled    == atoi(s_comp.line)
                optimizer_type == OptimizerOf(atoi(s_opt.line))
                learning_rate  == atof(s_lr.line).v
                m0 == [create_model(<<s_name.line.s>>) EXCEPT
                         !.num_layers     = atoi(s_num.line),
                         !.is_compiled    = is_compiled,
                         !.optimizer_type = optimizer_type,
                         !.loss_function  = LossOf(atoi(s_loss.line)),
                         !.learning_rate  = learning_rate]
                r  == load_model_layers(text, s_lr, m0, <<>>, 0, junk)
            IN IF r.outcome # "ok"
               THEN [outcome |-> r.outcome] @@ none
               ELSE IF is_compiled = 0
               THEN [outcome |-> "ok", model |-> r.model, layers |-> r.layers,
                     optimizer |-> NoOptimizer]
               ELSE IF ~create_optimizer_ok(learning_rate)
               THEN [outcome |-> "exit"] @@ none
               ELSE [outcome |-> "ok",
                     model |-> [r.model EXCEPT !.optimizer = Allocated],
                     layers |-> r.layers,
                     optimizer |-> create_optimizer(optimizer_type, learning_rate)]

(* load_weights' loop over the layers; a mismatch returns with the layers  *)
(* read so far overwritten                                                 *)
RECURSIVE load_weight_blocks(_, _, _, _, _, _)
load_weight_blocks(text, st, ls, current, remaining, junk) ==
    IF remaining <= 0
    THEN [outcome |-> "ok", layers |-> ls]
    ELSE IF current = NULL
    THEN [outcome |-> "error", layers |-> ls]
    ELSE LET s_w == fgets(text, st, 1)
             w   == sscanf(s_w.line, "WEIGHTS", junk)
         IN IF w[1] # ls[current].weights.rows \/ w[2] # ls[current].weights.cols
            THEN [outcome |-> "error", layers |-> ls]
            ELSE LET rw  == read_matrix(text, s_w, ls[current].weights, w[1], w[2])
                     ls1 == [ls EXCEPT ![current].weights = rw.matrix]
                     s_b == fgets(text, rw.st, 1)
                     b   == sscanf(s_b.line, "BIASES", junk)
                 IN IF b[1] # ls[current].biases.rows \/ b[2] # ls[current].biases.cols
                    THEN [outcome |-> "error", layers |-> ls1]
                    ELSE LET rb == read_matrix(text, s_b, ls1[current].biases,
                                               b[1], b[2])
                         IN load_weight_blocks(text, rb.st,
                               [ls1 EXCEPT ![current].biases = rb.matrix],
                               ls[current].next, remaining - 1, junk)

(* load_weights reading a file with no layer-count check *)
load_weights_any_count(m, ls, text, junk) ==
    IF Len(text) = 0 \/ text[1] # TextLine("DEEPC_WEIGHTS_V2")
    THEN [outcome |-> "error", layers |-> ls]
    ELSE LET s_num == fgets(text, Cursor(2, text[1]), 1)
             n     == atoi(s_num.line)
         IN load_weight_blocks(text, s_num, ls, m.input_layer, n, junk)

load_weights(m, ls, text, junk) ==
    IF Len(text) = 0 \/ text[1] # TextLine("DEEPC_WEIGHTS_V2")
    THEN [outcome |-> "error", layers |-> ls]
    ELSE LET s_num == fgets(text, Cursor(2, text[1]), 1)
             num_layers == atoi(s_num.line)
         IN IF num_layers # m.num_layers
            THEN [outcome |-> "error", layers |-> ls]
            ELSE load_weight_blocks(text, s_num, ls, m.input_layer, num_layers, junk)

(* ------------------------------- fit locals ---------------------------- *)
(* nan: the rows of the matrix that hold a NaN *)
NoData == [rows |-> 0, cols |-> 0, nan |-> {}]

NanRows(n) == {{}} \cup {{r} : r \in 0..(n - 1)}

has_nan_in(data, start_idx, end_idx) ==
    \E r \in data.nan : start_idx <= r /\ r < end_idx

FitIdle ==
    [X |-> NoData, y |-> NoData, epochs |-> 0, batch_size |-> 0,
     num_samples |-> 0, num_batches |-> 0, epoch |-> 0, batch |-> 0]

(* fit that checks the compiled flag but not the row counts *)
fit_rejected_compiled_only(m, X, y) == m.is_compiled = 0

fit_rejected(m, X, y) == m.is_compiled = 0 \/ X.rows # y.rows

fit_batch_size(batch_size, num_samples) ==
    IF batch_size <= 0 \/ batch_size > num_samples THEN num_samples ELSE batch_size

(* batch count that rounds down and so drops a final partial batch *)
fit_num_batches_floor(num_samples, batch_size) == num_samples \div batch_size

fit_num_batches(num_samples, batch_size) ==
    (num_samples + batch_size - 1) \div batch_size

fit_end_idx(batch, batch_size, num_samples) ==
    IF (batch + 1) * batch_size > num_samples THEN num_samples
    ELSE (batch + 1) * batch_size

(* The body of fit's batch loop for the batch at f.batch: slice the batch, *)
(* forward, loss, loss gradient, backward, update.  A failed check inside  *)
(* a callee ends the process with what had been done up to it.             *)
fit_batch(m, ls, opt, f) ==
    LET start_idx == f.batch * f.batch_size
        end_idx   == fit_end_idx(f.batch, f.batch_size, f.num_samples)
        current_batch_size == end_idx - start_idx
        X_batch == [DataMatrix(current_batch_size, f.X.cols, start_idx, end_idx)
                       EXCEPT !.nan = has_nan_in(f.X, start_idx, end_idx)]
        y_batch == [DataMatrix(current_batch_size, f.y.cols, start_idx, end_idx)
                       EXCEPT !.nan = has_nan_in(f.y, start_idx, end_idx)]
        range   == <<start_idx, end_idx>>
        p == predict(m, ls, X_batch)
    IN IF ~p.ok
       THEN [ok |-> FALSE, layers |-> p.layers, opt |-> opt, log |-> p.log,
             range |-> range]
       ELSE IF ~compute_loss_ok(y_batch, p.output)
       THEN [ok |-> FALSE, layers |-> p.layers, opt |-> opt, log |-> p.log,
             range |-> range]
       ELSE LET g   == compute_loss_gradient(y_batch, p.output)
                l1  == p.log \o <<Event("compute_loss", 0, 0, 0, 0, 0, p.layers),
                                  Event("compute_loss_gradient", 0, 0, 0, g.origin, 0,
                                        p.layers)>>
                b   == backward_propagation(m, p.layers, g)
                u   == update_model_weights(m, b.layers, opt)
            IN IF ~b.ok
               THEN [ok |-> FALSE, layers |-> b.layers, opt |-> opt,
                     log |-> l1 \o b.log, range |-> range]
               ELSE [ok |-> u.ok, layers |-> u.layers, opt |-> u.opt,
                     log |-> l1 \o b.log \o u.log, range |-> range]

(* ---------------------------- the two fits ----------------------------- *)
(* models.c exists in two versions.  Both run the same nest of loops over  *)
(* epochs and batches; here a whole call is one operator, the k-th batch   *)
(* step being batch k % num_batches of epoch k \div num_batches.           *)

(* batch step that updates the weights before it propagates the gradient *)
fit_batch_update_first(m, ls, opt, f) ==
    LET start_idx == f.batch * f.batch_size
        end_idx   == fit_end_idx(f.batch, f.batch_size, f.num_samples)
        current_batch_size == end_idx - start_idx
        X_batch == [DataMatrix(current_batch_size, f.X.cols, start_idx, end_idx)
                       EXCEPT !.nan = has_nan_in(f.X, start_idx, end_idx)]
        y_batch == [DataMatrix(current_batch_size, f.y.cols, start_idx, end_idx)
                       EXCEPT !.nan = has_nan_in(f.y, start_idx, end_idx)]
        predictions == predict(m, ls, X_batch)
    IN IF ~predictions.ok \/ ~compute_loss_ok(y_batch, predictions.output)
       THEN [ok |-> FALSE, layers |-> predictions.layers, opt |-> opt,
             log |-> predictions.log]
       ELSE LET loss_gradient == compute_loss_gradient(y_batch, predictions.output)
                l1 == predictions.log
                         \o <<Event("compute_loss", 0, 0, 0, 0, 0, predictions.layers),
                              Event("compute_loss_gradient", 0, 0, 0,
                                    loss_gradient.origin, 0, predictions.layers)>>
                u  == update_model_weights(m, predictions.layers, opt)
                b  == backward_propagation(m, u.layers, loss_gradient)
            IN [ok |-> b.ok /\ u.ok, layers |-> b.layers, opt |-> u.opt,
                log |-> l1 \o u.log \o b.log]

(* the batch step of the fail-fast fit: no result is tested, every failure *)
(* ends the process inside the callee                                      *)
fit_batch_fail_fast(m, ls, opt, f) ==
    LET start_idx == f.batch * f.batch_size
        end_idx   == fit_end_idx(f.batch, f.batch_size, f.num_samples)
        current_batch_size == end_idx - start_idx
        X_batch == [DataMatrix(current_batch_size, f.X.cols, start_idx, end_idx)
                       EXCEPT !.nan = has_nan_in(f.X, start_idx, end_idx)]
        y_batch == [DataMatrix(current_batch_size, f.y.cols, start_idx, end_idx)
                       EXCEPT !.nan = has_nan_in(f.y, start_idx, end_idx)]
        predictions == predict(m, ls, X_batch)
    IN IF ~predictions.ok \/ ~compute_loss_ok(y_batch, predictions.output)
       THEN [ok |-> FALSE, layers |-> predictions.layers, opt |-> opt,
             log |-> predictions.log]
       ELSE LET loss_gradient == compute_loss_gradient(y_batch, predictions.output)
                l1 == predictions.log
                         \o <<Event("compute_loss", 0, 0, 0, 0, 0, predictions.layers),
                              Event("compute_loss_gradient", 0, 0, 0,
                                    loss_gradient.origin, 0, predictions.layers)>>
                b  == backward_propagation(m, predictions.layers, loss_gradient)
                u  == update_model_weights(m, b.layers, opt)
            IN IF ~b.ok
               THEN [ok |-> FALSE, layers |-> b.layers, opt |-> opt,
                     log |-> l1 \o b.log]
               ELSE [ok |-> u.ok, layers |-> u.layers, opt |-> u.opt,
                     log |-> l1 \o b.log \o u.log]

(* the locals of fit after its checks *)
fit_locals(X, y, epochs, batch_size) ==
    [FitIdle EXCEPT !.X = X, !.y = y, !.epochs = epochs,
                    !.batch_size = fit_batch_size(batch_size, X.rows),
                    !.num_samples = X.rows,
                    !.num_batches = fit_num_batches(X.rows,
                                       fit_batch_size(batch_size, X.rows))]

fit_at(f, k) == [f EXCEPT !.epoch = k \div f.num_batches, !.batch = k % f.num_batches]

RECURSIVE fit_fail_fast_loop(_, _, _, _, _, _)
fit_fail_fast_loop(m, ls, opt, f, k, log) ==
    IF ~(k < f.epochs * f.num_batches)
    THEN [outcome |-> "ok", layers |-> ls, opt |-> opt, log |-> log]
    ELSE LET r == fit_batch_fail_fast(m, ls, opt, fit_at(f, k))
         IN IF ~r.ok
            THEN [outcome |-> "exit", layers |-> r.layers, opt |-> r.opt,
                  log |-> log \o r.log]
            ELSE fit_fail_fast_loop(m, r.layers, r.opt, f, k + 1, log \o r.log)

(* fit of the version whose checks are MODEL_CHECKs *)
fit_fail_fast(m, ls, opt, X, y, epochs, batch_size) ==
    IF fit_rejected(m, X, y)
    THEN [outcome |-> "exit", layers |-> ls, opt |-> opt, log |-> <<>>]
    ELSE fit_fail_fast_loop(m, ls, opt, fit_locals(X, y, epochs, batch_size), 0, <<>>)

RECURSIVE fit_print_return_loop(_, _, _, _, _, _)
fit_print_return_loop(m, ls, opt, f, k, log) ==
    IF ~(k < f.epochs * f.num_batches)
    THEN [outcome |-> "ok", layers |-> ls, opt |-> opt, log |-> log]
    ELSE LET r == fit_batch(m, ls, opt, fit_at(f, k))
         IN IF ~r.ok
            THEN [outcome |-> "exit", layers |-> r.layers, opt |-> r.opt,
                  log |-> log \o r.log]
            ELSE fit_print_return_loop(m, r.layers, r.opt, f, k + 1, log \o r.log)

(* fit of the version whose checks print ERROR and return *)
fit_print_return(m, ls, opt, X, y, epochs, batch_size) ==
    IF fit_rejected(m, X, y)
    THEN [outcome |-> "return", layers |-> ls, opt |-> opt, log |-> <<>>]
    ELSE fit_print_return_loop(m, ls, opt, fit_locals(X, y, epochs, batch_size), 0, <<>>)

(* --------------------------------- heap -------------------------------- *)
(* An allocation made on the model's behalf: what it is, which field or    *)
(* array it hangs from, which layer or which OptimizerState (numbered in   *)
(* order of creation) it belongs to, and its index in a moment array.      *)
Obj(kind, field, owner, idx) ==
    [kind |-> kind, field |-> field, owner |-> owner, idx |-> idx]

MomentArrays == {"m_weights", "v_weights", "m_biases", "v_biases"}

(* compiles: OptimizerStates created so far; lost: allocations no pointer  *)
(* of the model leads to any more; released: the calls of free, in order   *)
NoHeap == [compiles |-> 0, lost |-> {}, released |-> <<>>]

(* create_model: the struct and the strdup'ed name *)
create_model_allocs == {Obj("model", "", 0, 0), Obj("name", "", 0, 0)}

(* Dense, and the caches forward_pass leaves in the layer *)
layer_allocs(ls, id) ==
    {Obj("layer", "", id, 0)}
    \cup {Obj("matrix", f, id, 0) : f \in {"weights", "biases", "dweights", "dbiases"}}
    \cup (IF ls[id].input # NoMatrix THEN {Obj("matrix", "input", id, 0)} ELSE {})
    \cup (IF ls[id].output # NoMatrix THEN {Obj("matrix", "output", id, 0)} ELSE {})
    \cup (IF ls[id].z # NoMatrix THEN {Obj("matrix", "z", id, 0)} ELSE {})

(* create_optimizer and initialize_adam_moments for OptimizerState n: the  *)
(* struct; under Adam the four arrays and, for every initialised index,    *)
(* four malloc'ed cells each pointing to a moment matrix                   *)
optimizer_allocs(opt, n) ==
    {Obj("optimizer", "", n, 0)}
    \cup (IF opt.type = "ADAM"
          THEN {Obj("array", a, n, 0) : a \in MomentArrays}
               \cup {Obj("cell", a, n, i) : a \in MomentArrays, i \in DOMAIN opt.moments}
               \cup {Obj("moment", a, n, i) : a \in MomentArrays, i \in DOMAIN opt.moments}
          ELSE {})

(* everything allocated and not released that the model's pointers lead to *)
model_allocs(m, ls, opt, n) ==
    create_model_allocs
    \cup UNION {layer_allocs(ls, id) : id \in 1..Len(ls)}
    \cup (IF m.optimizer # NULL THEN optimizer_allocs(opt, n) ELSE {})

free_layer(ls, id) ==
    <<Obj("matrix", "weights", id, 0), Obj("matrix", "biases", id, 0),
      Obj("matrix", "dweights", id, 0), Obj("matrix", "dbiases", id, 0)>>
    \o (IF ls[id].input # NoMatrix THEN <<Obj("matrix", "input", id, 0)>> ELSE <<>>)
    \o (IF ls[id].output # NoMatrix THEN <<Obj("matrix", "output", id, 0)>> ELSE <<>>)
    \o (IF ls[id].z # NoMatrix THEN <<Obj("matrix", "z", id, 0)>> ELSE <<>>)
    \o <<Obj("layer", "", id, 0)>>

RECURSIVE free_layers(_, _)
free_layers(ls, current) ==
    IF current = NULL THEN <<>>
    ELSE free_layer(ls, current) \o free_layers(ls, ls[current].next)

(* free_optimizer's loop over i < max_layers: free_matrix of the matrix   *)
(* array[i] points to, for the four arrays, where array[i] is not NULL    *)
RECURSIVE free_moments(_, _, _)
free_moments(opt, n, i) ==
    IF ~(i < opt.max_layers) THEN <<>>
    ELSE (IF i \in DOMAIN opt.moments
          THEN <<Obj("moment", "m_weights", n, i), Obj("moment", "v_weights", n, i),
                 Obj("moment", "m_biases", n, i), Obj("moment", "v_biases", n, i)>>
          ELSE <<>>)
         \o free_moments(opt, n, i + 1)

free_optimizer(opt, n) ==
    (IF opt.type = "ADAM"
     THEN free_moments(opt, n, 0)
          \o <<Obj("array", "m_weights", n, 0), Obj("array", "v_weights", n, 0),
               Obj("array", "m_biases", n, 0), Obj("array", "v_biases", n, 0)>>
     ELSE <<>>)
    \o <<Obj("optimizer", "", n, 0)>>

(* the calls of free that free_model makes, in order *)
free_model(m, ls, opt, n) ==
    free_layers(ls, m.input_layer)
    \o (IF m.optimizer # NULL THEN free_optimizer(opt, n) ELSE <<>>)
    \o <<Obj("name", "", 0, 0), Obj("model", "", 0, 0)>>

(* ---------------------------- data processing -------------------------- *)
(* A matrix made of rows of a dataset is the sequence of the original row  *)
(* numbers (from 0) its rows were copied from.  test_size is counted in    *)
(* tenths; for the row counts used here the double product                 *)
(* total_samples * test_size truncates to (total_samples * tenths) / 10.   *)
NoSplit == [op |-> "none", outcome |-> "ok", rows |-> 0, yrows |-> 0, tenths |-> 0,
            X_train |-> <<>>, X_test |-> <<>>, y_train |-> <<>>, y_test |-> <<>>]

test_samples_of(total_samples, tenths) == (total_samples * tenths) \div 10

train_test_split_ok(xrows, yrows, tenths) ==
    /\ xrows = yrows
    /\ tenths > 0 /\ tenths < 10
    /\ xrows - test_samples_of(xrows, tenths) > 0
    /\ test_samples_of(xrows, tenths) > 0

(* the Fisher-Yates loop from position i down to 1; js[i] is rand() % (i + 1) *)
RECURSIVE fisher_yates(_, _, _)
fisher_yates(indices, i, js) ==
    IF ~(i > 0) THEN indices
    ELSE fisher_yates([indices EXCEPT ![i] = indices[js[i]], ![js[i]] = indices[i]],
                      i - 1, js)

(* test row i read from the start of the shuffled indices *)
test_index_from_start(train_samples, i) == i

(* the position in indices that test row i is copied from *)
test_index(train_samples, i) == train_samples + i

train_test_split(total_samples, tenths, js) ==
    LET test_samples  == test_samples_of(total_samples, tenths)
        train_samples == total_samples - test_samples
        indices == fisher_yates([i \in 0..(total_samples - 1) |-> i],
                                total_samples - 1, js)
        train   == [i \in 1..train_samples |-> indices[i - 1]]
        test    == [i \in 1..test_samples |->
                      indices[test_index(train_samples, i - 1)]]
    IN [X_train |-> train, y_train |-> train, X_test |-> test, y_test |-> test]

(* ----------------------------- random numbers -------------------------- *)
(* The C library's generator: srand(seed) restarts the sequence that seed  *)
(* determines, and the count-th rand() after it is a function of seed and  *)
(* count.  Different seeds give different sequences.                       *)
RandMod == 6

rand(seed, count) == (seed + count) % RandMod

(* One run of a program: the generator's seed and the number of draws      *)
(* since srand, the static flag of initialize_weights_xavier, and what the *)
(* last call produced.  srand has not been called: the sequence of seed 1. *)
NoRun == [seed |-> 1, count |-> 0, seeded |-> FALSE, out |-> <<>>]

(* two runs of the same sequence of calls; called: deepc_seed was called *)
NoRng == [called |-> FALSE, calls |-> 0, run |-> <<NoRun, NoRun>>]

srand(r, seed) == [r EXCEPT !.seed = seed, !.count = 0]

deepc_seed(r, seed) == [srand(r, seed) EXCEPT !.out = <<>>]

(* initialize_weights_xavier on a rows x cols matrix at wall-clock time:   *)
(* the weights in row-major order, each a function of one rand()           *)
initialize_weights_xavier(r, rows, cols, time) ==
    LET r1 == IF ~r.seeded THEN [srand(r, time) EXCEPT !.seeded = TRUE] ELSE r
    IN [r1 EXCEPT !.count = @ + rows * cols,
                  !.out = [k \in 1..(rows * cols) |-> rand(r1.seed, r1.count + k - 1)]]

(* the draws j = rand() % (i + 1) of a Fisher-Yates loop that runs from    *)
(* i = n - 1 down to 1                                                     *)
shuffle_draws(r, n) ==
    [i \in 1..(n - 1) |-> rand(r.seed, r.count + (n - 1 - i)) % (i + 1)]

(* the shuffle of train_test_split and of shuffle_dataset at wall-clock    *)
(* time: out is the order the n rows end in                                *)
shuffle_rows(r, n, time) ==
    LET r1 == srand(r, time)
        indices == fisher_yates([i \in 0..(n - 1) |-> i], n - 1, shuffle_draws(r1, n))
    IN [r1 EXCEPT !.count = @ + (n - 1),
                  !.out = [i \in 1..n |-> indices[i - 1]]]

(* --------------------------- layers with values ------------------------ *)
(* A layer whose matrices carry their elements, for the arithmetic of one  *)
(* forward or backward pass.  Elements are small integers; a quotient      *)
(* sum / rows is kept exactly as the pair num / den.  The activations are  *)
(* those whose values and derivatives stay in the integers.                *)
MaxBatch == 2

UnitActivations == {"LINEAR", "RELU"}

(* the matrices of test values that are tried *)
Patterns == {1, 2}

(* element (i, j) of the s-th matrix of test values, in -2 .. 2 *)
Pattern(s, i, j) == ((s + 2 * i + 3 * j) % 5) - 2

(* a NULL Matrix pointer *)
NullMatrix == [rows |-> 0, cols |-> 0, data |-> <<>>]

(* create_matrix(rows, cols) filled with F(i, j) *)
Matrix(rows, cols, F(_, _)) ==
    [rows |-> rows, cols |-> cols,
     data |-> [i \in 0..(rows - 1) |-> [j \in 0..(cols - 1) |-> F(i, j)]]]

PatternMatrix(rows, cols, s) == Matrix(rows, cols, LAMBDA i, j : Pattern(s, i, j))

Quotient(sum, rows) == [num |-> sum, den |-> rows]

(* sum of f[0] .. f[n - 1], as the loops double sum = 0.0; sum += ... *)
RECURSIVE sum_loop(_, _)
sum_loop(f, n) == IF n = 0 THEN 0 ELSE sum_loop(f, n - 1) + f[n - 1]

transpose(a) == Matrix(a.cols, a.rows, LAMBDA i, j : a.data[j][i])

dot(a, b) ==
    IF a.cols # b.rows THEN NullMatrix
    ELSE Matrix(a.rows, b.cols,
                LAMBDA i, j : sum_loop([k \in 0..(a.cols - 1) |->
                                           a.data[i][k] * b.data[k][j]], a.cols))

apply_activation(input, activation) ==
    Matrix(input.rows, input.cols,
           LAMBDA i, j : IF activation = "RELU"
                         THEN (IF input.data[i][j] > 0 THEN input.data[i][j] ELSE 0)
                         ELSE input.data[i][j])

apply_activation_derivative(input, activation) ==
    Matrix(input.rows, input.cols,
           LAMBDA i, j : IF activation = "RELU"
                         THEN (IF input.data[i][j] > 0 THEN 1 ELSE 0)
                         ELSE 1)

(* Dense(units, activation, input_dim); s numbers the weights that the     *)
(* random initialisation produced                                          *)
DenseValues(units, activation, input_dim, s) ==
    [activation  |-> activation,
     input_size  |-> input_dim,
     output_size |-> units,
     weights     |-> PatternMatrix(units, input_dim, s),
     biases      |-> Matrix(units, 1, LAMBDA i, j : 0),
     dweights    |-> Matrix(units, input_dim, LAMBDA i, j : Quotient(0, 1)),
     dbiases     |-> Matrix(units, 1, LAMBDA i, j : Quotient(0, 1)),
     input       |-> NullMatrix,
     output      |-> NullMatrix,
     z           |-> NullMatrix]

(* forward pass that stores the input before it looks at its width *)
forward_pass_caches_first(layer, input) ==
    IF input.cols # layer.input_size
    THEN [outcome |-> "exit", layer |-> [layer EXCEPT !.input = input],
          ret |-> NullMatrix]
    ELSE LET weights_transpose == transpose(layer.weights)
             z0 == dot(input, weights_transpose)
             z  == Matrix(z0.rows, z0.cols,
                          LAMBDA i, j : z0.data[i][j] + layer.biases.data[j][0])
             output == apply_activation(z, layer.activation)
         IN [outcome |-> "ok",
             layer |-> [layer EXCEPT !.input = input, !.z = z, !.output = output],
             ret |-> output]

forward_pass_values(layer, input) ==
    IF input.cols # layer.input_size
    THEN [outcome |-> "exit", layer |-> layer, ret |-> NullMatrix]
    ELSE LET weights_transpose == transpose(layer.weights)
             z0 == dot(input, weights_transpose)
             z  == Matrix(z0.rows, z0.cols,
                          LAMBDA i, j : z0.data[i][j] + layer.biases.data[j][0])
             output == apply_activation(z, layer.activation)
         IN [outcome |-> "ok",
             layer |-> [layer EXCEPT !.input = input, !.z = z, !.output = output],
             ret |-> output]

(* the reads of backward_pass stay inside activation_deriv, delta and      *)
(* input_transpose exactly when the gradient is as wide as z and has no    *)
(* more rows than z                                                        *)
backward_pass_in_bounds(layer, gradient) ==
    gradient.cols = layer.z.cols /\ gradient.rows <= layer.z.rows

(* backward pass that stores the sums without dividing them by the rows *)
backward_pass_sums(layer, gradient) ==
    IF layer.z = NullMatrix \/ layer.input = NullMatrix
    THEN [outcome |-> "exit", layer |-> layer, ret |-> NullMatrix]
    ELSE IF ~backward_pass_in_bounds(layer, gradient)
    THEN [outcome |-> "undefined", layer |-> layer, ret |-> NullMatrix]
    ELSE LET activation_deriv == apply_activation_derivative(layer.z, layer.activation)
             delta == Matrix(gradient.rows, gradient.cols,
                             LAMBDA i, j : gradient.data[i][j] * activation_deriv.data[i][j])
             input_transpose == transpose(layer.input)
             dweights == Matrix(layer.dweights.rows, layer.dweights.cols,
                           LAMBDA i, j :
                              Quotient(sum_loop([k \in 0..(delta.rows - 1) |->
                                          delta.data[k][i] * input_transpose.data[j][k]],
                                          delta.rows), 1))
             dbiases == Matrix(layer.dbiases.rows, 1,
                           LAMBDA i, j :
                              Quotient(sum_loop([k \in 0..(delta.rows - 1) |->
                                          delta.data[k][i]], delta.rows), 1))
         IN [outcome |-> "ok",
             layer |-> [layer EXCEPT !.dweights = dweights, !.dbiases = dbiases],
             ret |-> dot(delta, layer.weights)]

backward_pass_values(layer, gradient) ==
    IF layer.z = NullMatrix \/ layer.input = NullMatrix
    THEN [outcome |-> "exit", layer |-> layer, ret |-> NullMatrix]
    ELSE IF ~backward_pass_in_bounds(layer, gradient)
    THEN [outcome |-> "undefined", layer |-> layer, ret |-> NullMatrix]
    ELSE LET activation_deriv == apply_activation_derivative(layer.z, layer.activation)
             delta == Matrix(gradient.rows, gradient.cols,
                             LAMBDA i, j : gradient.data[i][j] * activation_deriv.data[i][j])
             input_transpose == transpose(layer.input)
             dweights == Matrix(layer.dweights.rows, layer.dweights.cols,
                           LAMBDA i, j :
                              Quotient(sum_loop([k \in 0..(delta.rows - 1) |->
                                          delta.data[k][i] * input_transpose.data[j][k]],
                                          delta.rows), delta.rows))
             dbiases == Matrix(layer.dbiases.rows, 1,
                           LAMBDA i, j :
                              Quotient(sum_loop([k \in 0..(delta.rows - 1) |->
                                          delta.data[k][i]], delta.rows), delta.rows))
         IN [outcome |-> "ok",
             layer |-> [layer EXCEPT !.dweights = dweights, !.dbiases = dbiases],
             ret |-> dot(delta, layer.weights)]

(* the layer under direct calls: the last call, its argument, what it      *)
(* returned and the layer as it was before the call                        *)
NoUnit == [op |-> "none", outcome |-> "ok", layer |-> <<>>, old |-> <<>>,
           arg |-> NullMatrix, ret |-> NullMatrix]

(* -------------------------------- memory ------------------------------- *)
(* The matrices on the heap and the pointers to them.  A slot is a pointer *)
(* variable: a field of layer i (i from 1), a moment of layer i, a local   *)
(* of a function or a variable of the caller (layer number 0).  env gives  *)
(* each slot the address it holds (NULL = 0), live is the set of addresses *)
(* of allocated matrices, bad collects the statements that read, wrote or  *)
(* released a matrix that was NULL or already released.  What a function does to  *)
(* memory is the sequence of its statements that allocate, release, copy a *)
(* pointer or go through one.                                              *)
LayerFields == {"weights", "biases", "dweights", "dbiases"}

Caches == {"input", "z", "output"}

Moments == {"m_weights", "v_weights", "m_biases", "v_biases"}

Locals == {"X", "y", "ret", "X_batch", "y_batch", "predictions", "loss_gradient",
           "current_output", "next_output", "weights_transpose", "fz", "foutput",
           "gradient", "prev_gradient", "activation_deriv", "delta",
           "input_transpose", "bret"}

Slots == ((LayerFields \cup Caches \cup Moments) \X (1..MaxLayers)) \cup (Locals \X {0})

NoMem == [env |-> [s \in Slots |-> NULL], live |-> {}, bad |-> {},
          layers |-> 0, optimizer |-> "none", steps |-> 0, calls |-> 0]

(* statements *)
New(s) == <<"new", s, s>>

Free(s) == <<"free", s, s>>

Use(s) == <<"use", s, s>>

Move(dst, src) == <<"move", dst, src>>

Forget(s) == <<"forget", s, s>>

(* dst = copy_matrix(src) *)
Copy(dst, src) == <<Use(src), New(dst)>>

(* malloc returns an address that is not in use: here the lowest *)
malloc(h) == CHOOSE a \in 1..(Cardinality(h.live) + 1) :
                a \notin h.live /\ \A b \in 1..(a - 1) : b \in h.live

(* a pointer to a matrix that has been released *)
Dangling == 0 - 1

(* env with the value v in every slot of S *)
RECURSIVE set_all(_, _, _)
set_all(env, S, v) ==
    IF S = {} THEN env
    ELSE LET s == CHOOSE t \in S : TRUE
         IN set_all([env EXCEPT ![s] = v], S \ {s}, v)

(* free_matrix releases the matrix; every pointer to it is then dangling *)
release(h, a) ==
    [h EXCEPT !.live = @ \ {a},
              !.env = set_all(h.env, {s \in Slots : h.env[s] = a}, Dangling)]

exec_stmt(h, st) ==
    LET a == h.env[st[3]]
    IN CASE st[1] = "new"  ->
              [h EXCEPT !.env[st[2]] = malloc(h), !.live = @ \cup {malloc(h)}]
         [] st[1] = "free" ->
              IF a = NULL THEN h
              ELSE IF a \notin h.live THEN [h EXCEPT !.bad = @ \cup {st}]
              ELSE release(h, a)
         [] st[1] = "use"  ->
              IF a \notin h.live THEN [h EXCEPT !.bad = @ \cup {st}] ELSE h
         [] st[1] = "move" -> [h EXCEPT !.env[st[2]] = a]
         [] st[1] = "forget" -> [h EXCEPT !.env[st[2]] = NULL]

(* the statements trace[lo..hi] one after the other, up to the first one   *)
(* that goes through a released or NULL matrix: what the program does      *)
(* after that is not defined                                                *)
RECURSIVE exec(_, _, _, _)
exec(h, trace, lo, hi) ==
    IF lo > hi THEN h
    ELSE IF lo = hi THEN exec_stmt(h, trace[lo])
    ELSE LET mid == (lo + hi) \div 2
             g == exec(h, trace, lo, mid)
         IN IF g.bad # {} THEN g ELSE exec(g, trace, mid + 1, hi)

(* the caller's variables; every other local is gone when the call returns *)
CallerSlots == {"X", "y", "ret"} \X {0}

run(h, trace) ==
    LET g == exec(h, trace, 1, Len(trace))
    IN [g EXCEPT !.env = set_all(g.env, (Locals \X {0}) \ CallerSlots, NULL)]

(* Dense: the four parameter and gradient matrices; the caches stay NULL *)
Dense_trace(i) ==
    <<New(<<"weights", i>>), New(<<"biases", i>>),
      New(<<"dweights", i>>), New(<<"dbiases", i>>)>>

(* forward pass that keeps the matrix it returns as the layer's output *)
forward_pass_trace_shared(i, input, ret) ==
    <<Free(<<"input", i>>)>> \o Copy(<<"input", i>>, input)
    \o <<Use(<<"weights", i>>), New(<<"weights_transpose", 0>>),
         Use(input), Use(<<"weights_transpose", 0>>), New(<<"fz", 0>>),
         Free(<<"weights_transpose", 0>>),
         Use(<<"fz", 0>>), Use(<<"biases", i>>),
         Free(<<"z", i>>)>>
    \o Copy(<<"z", i>>, <<"fz", 0>>)
    \o <<Use(<<"fz", 0>>), New(<<"foutput", 0>>),
         Free(<<"fz", 0>>),
         Free(<<"output", i>>),
         Move(<<"output", i>>, <<"foutput", 0>>),
         Move(ret, <<"foutput", 0>>)>>

(* forward_pass(layer i, input), its result stored in ret; fz and foutput  *)
(* are its locals z and output                                             *)
forward_pass_trace(i, input, ret) ==
    <<Free(<<"input", i>>)>> \o Copy(<<"input", i>>, input)
    \o <<Use(<<"weights", i>>), New(<<"weights_transpose", 0>>),
         Use(input), Use(<<"weights_transpose", 0>>), New(<<"fz", 0>>),
         Free(<<"weights_transpose", 0>>),
         Use(<<"fz", 0>>), Use(<<"biases", i>>),
         Free(<<"z", i>>)>>
    \o Copy(<<"z", i>>, <<"fz", 0>>)
    \o <<Use(<<"fz", 0>>), New(<<"foutput", 0>>),
         Free(<<"fz", 0>>),
         Free(<<"output", i>>)>>
    \o Copy(<<"output", i>>, <<"foutput", 0>>)
    \o <<Move(ret, <<"foutput", 0>>)>>

(* predict's loop from layer i to layer n *)
RECURSIVE predict_loop_trace(_, _)
predict_loop_trace(i, n) ==
    IF i > n THEN <<>>
    ELSE forward_pass_trace(i, <<"current_output", 0>>, <<"next_output", 0>>)
         \o <<Free(<<"current_output", 0>>),
              Move(<<"current_output", 0>>, <<"next_output", 0>>)>>
         \o predict_loop_trace(i + 1, n)

(* predict(model of n layers, input), its result stored in ret *)
predict_trace(n, input, ret) ==
    Copy(<<"current_output", 0>>, input)
    \o predict_loop_trace(1, n)
    \o <<Move(ret, <<"current_output", 0>>)>>

(* backward_pass(layer i, gradient), its result stored in bret *)
backward_pass_trace(i) ==
    <<Use(<<"z", i>>), Use(<<"input", i>>),
      Use(<<"z", i>>), New(<<"activation_deriv", 0>>),
      New(<<"delta", 0>>), Use(<<"gradient", 0>>), Use(<<"activation_deriv", 0>>),
      Use(<<"input", i>>), New(<<"input_transpose", 0>>),
      Use(<<"delta", 0>>), Use(<<"input_transpose", 0>>), Use(<<"dweights", i>>),
      Use(<<"delta", 0>>), Use(<<"dbiases", i>>),
      Use(<<"delta", 0>>), Use(<<"weights", i>>), New(<<"bret", 0>>),
      Free(<<"activation_deriv", 0>>), Free(<<"delta", 0>>),
      Free(<<"input_transpose", 0>>)>>

(* backward_propagation's loop from layer i down to layer 1 *)
RECURSIVE backward_loop_trace(_)
backward_loop_trace(i) ==
    IF i < 1 THEN <<>>
    ELSE backward_pass_trace(i)
         \o <<Move(<<"prev_gradient", 0>>, <<"bret", 0>>),
              Free(<<"gradient", 0>>),
              Move(<<"gradient", 0>>, <<"prev_gradient", 0>>)>>
         \o backward_loop_trace(i - 1)

(* backward_propagation that does not release the gradient of the first layer *)
backward_propagation_trace_keeps_last(n) ==
    Copy(<<"gradient", 0>>, <<"loss_gradient", 0>>)
    \o backward_loop_trace(n)

(* backward_propagation on a model of n layers; the array of layer        *)
(* pointers it allocates and frees is not a matrix                         *)
backward_propagation_trace(n) ==
    Copy(<<"gradient", 0>>, <<"loss_gradient", 0>>)
    \o backward_loop_trace(n)
    \o <<Free(<<"gradient", 0>>)>>

(* update_weights on layer i: SGD goes through the parameters and the      *)
(* gradients; Adam first creates the four moments the layer does not have  *)
(* (the one-pointer blocks that hold them are not matrices)                *)
update_weights_trace(h, optimizer_type, i) ==
    (IF optimizer_type = "ADAM"
     THEN (IF h.env[<<"m_weights", i>>] = NULL
           THEN <<New(<<"m_weights", i>>), New(<<"v_weights", i>>),
                  New(<<"m_biases", i>>), New(<<"v_biases", i>>)>>
           ELSE <<>>)
          \o <<Use(<<"m_weights", i>>), Use(<<"v_weights", i>>),
               Use(<<"m_biases", i>>), Use(<<"v_biases", i>>)>>
     ELSE <<>>)
    \o <<Use(<<"weights", i>>), Use(<<"dweights", i>>),
         Use(<<"biases", i>>), Use(<<"dbiases", i>>)>>

RECURSIVE update_model_weights_trace(_, _, _, _)
update_model_weights_trace(h, optimizer_type, i, n) ==
    IF i > n THEN <<>>
    ELSE update_weights_trace(h, optimizer_type, i)
         \o update_model_weights_trace(h, optimizer_type, i + 1, n)

(* one batch step of fit on the caller's X and y *)
fit_step_trace(h, optimizer_type, n) ==
    <<New(<<"X_batch", 0>>), New(<<"y_batch", 0>>),
      Use(<<"X", 0>>), Use(<<"X_batch", 0>>), Use(<<"y", 0>>), Use(<<"y_batch", 0>>)>>
    \o predict_trace(n, <<"X_batch", 0>>, <<"predictions", 0>>)
    \o <<Use(<<"y_batch", 0>>), Use(<<"predictions", 0>>),
         Use(<<"y_batch", 0>>), Use(<<"predictions", 0>>), New(<<"loss_gradient", 0>>)>>
    \o backward_propagation_trace(n)
    \o update_model_weights_trace(h, optimizer_type, 1, n)
    \o <<Free(<<"loss_gradient", 0>>), Free(<<"predictions", 0>>),
         Free(<<"X_batch", 0>>), Free(<<"y_batch", 0>>)>>

(* ------------------------------ call record ---------------------------- *)
Call(op, outcome, fwd, args) ==
    [op |-> op, outcome |-> outcome, fwd |-> fwd, args |-> args]

Idle == pc = "idle" /\ status = "running"

NumForward(log) == Cardinality({i \in 1..Len(log) : log[i].ev = "forward_pass"})

(* -------------------------------- actions ------------------------------ *)
Init ==
    /\ status = "running"
    /\ layers = <<>>
    /\ model = create_model(DefaultName)
    /\ optimizer = NoOptimizer
    /\ pc = "idle"
    /\ fit = FitIdle
    /\ call = Call("create_model", "ok", 0, <<>>)
    /\ events = <<>>
    /\ ranges = <<>>
    /\ hist = [total |-> 0, steps |-> 0, lens |-> {}, fitsteps |-> 0]
    /\ disk = NoDisk
    /\ heap = NoHeap
    /\ split = NoSplit
    /\ rng = NoRng
    /\ unit = NoUnit
    /\ mem = NoMem

AddLayer ==
    /\ Idle
    /\ Len(Chain) < MaxLayers
    /\ \E units \in Dims, activation \in Activations, input_dim \in Dims :
         LET layer == Dense(units, activation, input_dim)
         IN IF add_layer_ok(model, layers, layer)
            THEN /\ model' = add_layer(model, layers, layer).model
                 /\ layers' = add_layer(model, layers, layer).layers
                 /\ status' = status
                 /\ call' = Call("add_layer", "ok", 0,
                                 <<input_dim, units>>)
            ELSE /\ status' = "exited"
                 /\ call' = Call("add_layer", "exit", 0,
                                 <<input_dim, units>>)
                 /\ UNCHANGED <<model, layers>>
    /\ UNCHANGED <<optimizer, pc, fit, events, ranges, hist>>
    /\ UNCHANGED aux

Compile ==
    /\ Idle
    /\ \E opt \in Optimizers, loss \in LossFunctions, learning_rate \in LearningRates :
         IF compile_ok(model, learning_rate) /\ create_optimizer_ok(learning_rate)
         THEN /\ model' = compile(model, opt, loss, learning_rate)
              /\ optimizer' = create_optimizer(opt, learning_rate)
              /\ hist' = [hist EXCEPT !.steps = 0, !.lens = {}]
              /\ status' = status
              /\ call' = Call("compile", "ok", 0,
                              <<opt, loss, learning_rate>>)
         ELSE /\ status' = "exited"
              /\ call' = Call("compile", "exit", 0, <<learning_rate>>)
              /\ UNCHANGED <<model, optimizer, hist>>
    /\ UNCHANGED <<layers, pc, fit, events, ranges>>
    /\ UNCHANGED aux

Predict ==
    /\ Idle
    /\ \E rows \in {1}, cols \in Dims :
         LET p == predict(model, layers, DataMatrix(rows, cols, 0, rows))
         IN /\ layers' = p.layers
            /\ status' = IF p.ok THEN status ELSE "exited"
            /\ call' = Call("predict", IF p.ok THEN "ok" ELSE "exit",
                            NumForward(p.log),
                            <<DataMatrix(rows, cols, 0, rows), p.output>>)
    /\ UNCHANGED <<model, optimizer, pc, fit, events, ranges, hist>>
    /\ UNCHANGED aux

Evaluate ==
    /\ Idle
    /\ \E rows \in {1}, yrows \in {1, 2}, xcols \in Dims, ycols \in Dims :
         LET e == evaluate(model, layers, DataMatrix(rows, xcols, 0, rows),
                           DataMatrix(yrows, ycols, 0, yrows))
         IN /\ layers' = e.layers
            /\ status' = IF e.ok THEN status ELSE "exited"
            /\ call' = Call("evaluate", IF e.ok THEN "ok" ELSE "exit",
                            NumForward(e.log), <<>>)
    /\ UNCHANGED <<model, optimizer, pc, fit, events, ranges, hist>>
    /\ UNCHANGED aux

LoadModel ==
    /\ Idle
    /\ model = create_model(DefaultName)
    /\ \E file \in Files :
         LET r == load_model(file)
         IN /\ model' = r.model
            /\ layers' = r.layers
            /\ optimizer' = r.optimizer
            /\ status' = IF r.ok THEN status ELSE "exited"
            /\ hist' = [hist EXCEPT !.steps = 0, !.lens = {}]
            /\ call' = Call("load_model", IF r.ok THEN "ok" ELSE "exit",
                            0, <<>>)
    /\ UNCHANGED <<pc, fit, events, ranges>>
    /\ UNCHANGED aux

(* Position of fit's loops at (epoch, batch): a batch to run, the end of   *)
(* the epoch's batch loop, or the end of the epoch loop.                   *)
fit_loop(f, epoch, batch) ==
    IF ~(epoch < f.epochs)
    THEN [pc |-> "return", fit |-> f]
    ELSE IF ~(batch < f.num_batches)
         THEN [pc |-> "epoch_end", fit |-> [f EXCEPT !.epoch = epoch, !.batch = batch]]
         ELSE [pc |-> "batch", fit |-> [f EXCEPT !.epoch = epoch, !.batch = batch]]

FitGoto(pos, rs, ev, h, requested) ==
    IF pos.pc = "return"
    THEN /\ pc' = "idle"
         /\ hist' = [h EXCEPT !.fitsteps = 0]
         /\ fit' = FitIdle
         /\ events' = <<>>
         /\ ranges' = <<>>
         /\ call' = Call("fit", "ok", 0, <<>>)
    ELSE /\ pc' = pos.pc
         /\ hist' = h
         /\ fit' = pos.fit
         /\ events' = ev
         /\ ranges' = rs
         /\ call' = Call("fit", "running", 0, requested)

(* with_nan: whether the data may hold NaN.                                *)
(* fit reads the row counts first, the epoch count next, and the batch     *)
(* size and the columns only once a batch is run: the parts of the input   *)
(* a call never reads are not enumerated for it.  X has the width of the   *)
(* head layer (a wrong width is forward_pass's dimension error, which      *)
(* Predict and Evaluate reach); y has any width.                           *)
FitEnter(with_nan) ==
    /\ Idle
    /\ \E xrows \in 1..MaxSamples : \E yrows \in {xrows, xrows + 1} :
         IF fit_rejected(model, [rows |-> xrows], [rows |-> yrows])
         THEN /\ \/ /\ status' = status
                    /\ call' = Call("fit", "ok", 0, <<>>)
                 \/ /\ status' = "exited"
                    /\ call' = Call("fit", "exit", 0, <<>>)
              /\ UNCHANGED <<pc, fit, events, ranges, hist>>
         ELSE \E epochs \in -1..MaxSteps :
              \E xcols \in IF epochs > 0 /\ model.input_layer # NULL
                           THEN {layers[model.input_layer].input_size} ELSE {1} :
              \E ycols \in IF epochs > 0 THEN Dims ELSE {1} :
              \E batch_size \in IF epochs > 0 THEN 0..(xrows + 1) ELSE {0} :
              \E xnan \in IF with_nan /\ epochs > 0 THEN NanRows(xrows) ELSE {{}} :
              \E ynan \in IF with_nan /\ epochs > 0 /\ xnan = {}
                           THEN NanRows(yrows) \ {{}} ELSE {{}} :
                LET X  == [rows |-> xrows, cols |-> xcols, nan |-> xnan]
                    y  == [rows |-> yrows, cols |-> ycols, nan |-> ynan]
                    num_samples == X.rows
                    bs == fit_batch_size(batch_size, num_samples)
                    nb == fit_num_batches(num_samples, bs)
                    f  == [FitIdle EXCEPT !.X = X, !.y = y, !.epochs = epochs,
                                          !.batch_size = bs,
                                          !.num_samples = num_samples,
                                          !.num_batches = nb]
                IN /\ hist.total + (IF epochs > 0 THEN epochs * nb ELSE 0) <= MaxSteps
                   /\ FitGoto(fit_loop(f, 0, 0), <<>>, <<>>,
                              [hist EXCEPT !.fitsteps = 0], <<batch_size>>)
                   /\ status' = status
    /\ UNCHANGED <<layers, model, optimizer>>
    /\ UNCHANGED aux

(* fit on data without NaN *)
FitCall == FitEnter(FALSE)

(* fit on data of which exactly one row, of X or of y, holds a NaN *)
FitCallNaN == FitEnter(TRUE)

FitBatch ==
    /\ pc = "batch" /\ status = "running"
    /\ LET r == fit_batch(model, layers, optimizer, fit)
       IN /\ layers' = r.layers
          /\ optimizer' = r.opt
          /\ IF r.ok
             THEN /\ FitGoto(fit_loop(fit, fit.epoch, fit.batch + 1),
                             Append(ranges, r.range), r.log,
                             [hist EXCEPT !.total = @ + 1, !.steps = @ + 1,
                                          !.fitsteps = @ + 1,
                                          !.lens = @ \cup {Len(Chain)}], <<>>)
                  /\ status' = status
             ELSE /\ status' = "exited"
                  /\ events' = r.log
                  /\ ranges' = Append(ranges, r.range)
                  /\ call' = Call("fit", "exit", 0, <<>>)
                  /\ UNCHANGED <<pc, fit, hist>>
    /\ UNCHANGED model
    /\ UNCHANGED aux

FitEpochEnd ==
    /\ pc = "epoch_end" /\ status = "running"
    /\ FitGoto(fit_loop(fit, fit.epoch + 1, 0), <<>>, <<>>, hist, <<>>)
    /\ UNCHANGED <<status, layers, model, optimizer>>
    /\ UNCHANGED aux

Next ==
    \/ AddLayer
    \/ Compile
    \/ Predict
    \/ Evaluate
    \/ LoadModel
    \/ FitCall
    \/ FitBatch
    \/ FitEpochEnd

Spec == Init /\ [][Next]_vars

(* Training on data that holds a NaN: the epoch of such a fit never ends. *)
NextNaN ==
    \/ AddLayer
    \/ Compile
    \/ FitCallNaN
    \/ FitBatch

SpecNaN == Init /\ [][NextNaN]_vars

(* ------------------------- model files on disk ------------------------- *)
(* Model names: a name is the sequence of pieces that fprintf("%s\n") and  *)
(* the 255-character fgets split it into.  The default name is one piece;  *)
(* a name holding a newline (or 255 characters or more) is two.            *)
Names == {DefaultName, <<"my", "model">>}

(* indeterminate values of two uninitialised ints *)
Junk == {<<0, 0>>, <<1, 1>>, <<3, 1>>}

InitFile ==
    /\ status = "running"
    /\ layers = <<>>
    /\ \E name \in Names : model = create_model(name)
    /\ optimizer = NoOptimizer
    /\ pc = "idle"
    /\ fit = FitIdle
    /\ call = Call("create_model", "ok", 0, <<>>)
    /\ events = <<>>
    /\ ranges = <<>>
    /\ hist = [total |-> 0, steps |-> 0, lens |-> {}, fitsteps |-> 0]
    /\ disk = NoDisk
    /\ heap = NoHeap
    /\ split = NoSplit
    /\ rng = NoRng
    /\ unit = NoUnit
    /\ mem = NoMem

(* The scenario: a model is built, saved once, the file possibly cut, and  *)
(* loaded back once.                                                       *)
BuildLayer == disk = NoDisk /\ AddLayer

BuildCompile == disk = NoDisk /\ Compile

SaveModel ==
    /\ Idle
    /\ disk = NoDisk
    /\ disk' = [text |-> save_model(model, layers), cut |-> FALSE]
    /\ call' = Call("save_model", "ok", 0, <<>>)
    /\ UNCHANGED <<status, layers, model, optimizer, pc, fit, events, ranges, hist>>
    /\ UNCHANGED <<heap, split, rng, unit, mem>>

(* the environment cuts the file short: only its first k lines remain *)
Truncate ==
    /\ Idle
    /\ ~disk.cut
    /\ \E k \in 0..(Len(disk.text) - 1) :
         disk' = [text |-> SubSeq(disk.text, 1, k), cut |-> TRUE]
    /\ call' = Call("truncate", "ok", 0, <<>>)
    /\ UNCHANGED <<status, layers, model, optimizer, pc, fit, events, ranges, hist>>
    /\ UNCHANGED <<heap, split, rng, unit, mem>>

(* load_model(filename) on the file on disk; the caller passes the model   *)
(* it had, for comparison, as the call's argument                          *)
LoadModelFile ==
    /\ Idle
    /\ call.op \in {"save_model", "truncate"}
    /\ \E junk \in Junk :
         LET r == load_model_text(disk.text, junk)
         IN /\ call' = Call("load_model", r.outcome, 0,
                            <<model, layers, disk>>)
            /\ status' = IF r.outcome \in {"exit", "undefined"}
                         THEN "exited" ELSE status
            /\ IF r.outcome = "ok"
               THEN /\ model' = r.model
                    /\ layers' = r.layers
                    /\ optimizer' = r.optimizer
               ELSE UNCHANGED <<model, layers, optimizer>>
    /\ UNCHANGED <<pc, fit, events, ranges, hist, disk, heap, split, rng, unit, mem>>

NextFile == BuildLayer \/ BuildCompile \/ SaveModel \/ Truncate \/ LoadModelFile

SpecFile == InitFile /\ [][NextFile]_vars

(* ------------------------- weight files on disk ------------------------ *)
(* The file save_weights writes for a model whose layers have the shapes   *)
(* of blocks; every weight of its layer i is 2i - 1 and every bias 2i.     *)
WeightFile(blocks) ==
    LET r  == load_layers([create_model(DefaultName) EXCEPT
                              !.num_layers = Len(blocks)], <<>>, blocks, 1)
        ls == [i \in 1..Len(blocks) |->
                 [r.layers[i] EXCEPT !.weights.ver = 2 * i - 1,
                                     !.biases.ver = 2 * i]]
    IN save_weights(r.model, ls)

(* the environment provides one weight file, written by save_weights *)
WriteWeights ==
    /\ Idle
    /\ disk = NoDisk
    /\ \E blocks \in BlockSeqs :
         disk' = [text |-> WeightFile(blocks), cut |-> FALSE]
    /\ call' = Call("save_weights", "ok", 0, <<>>)
    /\ UNCHANGED <<status, layers, model, optimizer, pc, fit, events, ranges, hist>>
    /\ UNCHANGED <<heap, split, rng, unit, mem>>

LoadWeights ==
    /\ Idle
    /\ disk # NoDisk
    /\ \E junk \in Junk :
         LET r == load_weights(model, layers, disk.text, junk)
         IN /\ layers' = r.layers
            /\ call' = Call("load_weights", r.outcome, 0, <<>>)
    /\ UNCHANGED <<status, model, optimizer, pc, fit, events, ranges, hist>>
    /\ UNCHANGED aux

NextWeights == AddLayer \/ WriteWeights \/ LoadWeights

SpecWeights == Init /\ [][NextWeights]_vars

(* ------------------------------ model's heap --------------------------- *)
MaxCompiles == 2

(* compile, with the allocation it makes: model->optimizer is overwritten  *)
(* with the new OptimizerState; the old one is not passed to free_optimizer *)
HeapCompile ==
    /\ Idle
    /\ heap.compiles < MaxCompiles
    /\ \E opt \in Optimizers, loss \in LossFunctions, learning_rate \in LearningRates :
         IF compile_ok(model, learning_rate) /\ create_optimizer_ok(learning_rate)
         THEN /\ model' = compile(model, opt, loss, learning_rate)
              /\ optimizer' = create_optimizer(opt, learning_rate)
              /\ heap' = [heap EXCEPT
                            !.compiles = @ + 1,
                            !.lost = @ \cup (IF model.optimizer # NULL
                                             THEN optimizer_allocs(optimizer, heap.compiles)
                                             ELSE {})]
              /\ hist' = [hist EXCEPT !.steps = 0, !.lens = {}]
              /\ status' = status
              /\ call' = Call("compile", "ok", 0,
                              <<opt, loss, learning_rate>>)
         ELSE /\ status' = "exited"
              /\ call' = Call("compile", "exit", 0, <<learning_rate>>)
              /\ UNCHANGED <<model, optimizer, hist, heap>>
    /\ UNCHANGED <<layers, pc, fit, events, ranges, disk, split, rng, unit, mem>>

(* free_model(model): the model's fields are kept as they were, to tell    *)
(* what the freed pointers led to                                          *)
FreeModel ==
    /\ Idle
    /\ heap' = [heap EXCEPT !.released =
                   free_model(model, layers, optimizer, heap.compiles)]
    /\ status' = "freed"
    /\ call' = Call("free_model", "ok", 0, <<>>)
    /\ UNCHANGED <<layers, model, optimizer, pc, fit, events, ranges, hist, disk, split, rng, unit, mem>>

NextHeap ==
    \/ AddLayer \/ HeapCompile \/ Predict \/ Evaluate
    \/ FitCall \/ FitBatch \/ FitEpochEnd \/ FreeModel

SpecHeap == Init /\ [][NextHeap]_vars

(* ------------------------------ splitting ------------------------------ *)
MaxRows == 4

(* every outcome of the draws rand() % (i + 1) for i = n - 1 down to 1 *)
Draws(n) == {js \in [1..(n - 1) -> 0..(n - 1)] : \A i \in 1..(n - 1) : js[i] <= i}

TrainTestSplit ==
    /\ split.outcome # "exit"
    /\ \E xrows \in 1..MaxRows, tenths \in 0..10 :
       \E yrows \in {xrows, xrows + 1} :
         IF ~train_test_split_ok(xrows, yrows, tenths)
         THEN split' = [NoSplit EXCEPT !.op = "train_test_split", !.outcome = "exit",
                                       !.rows = xrows, !.yrows = yrows,
                                       !.tenths = tenths]
         ELSE \E js \in Draws(xrows) :
                split' = [op |-> "train_test_split", outcome |-> "ok",
                          rows |-> xrows, yrows |-> yrows, tenths |-> tenths]
                         @@ train_test_split(xrows, tenths, js)
    /\ UNCHANGED <<status, layers, model, optimizer, pc, fit, call, events, ranges,
                   hist, disk, heap, rng, unit, mem>>

NextSplit == TrainTestSplit

SpecSplit == Init /\ [][NextSplit]_vars

(* ----------------------------- reproducibility ------------------------- *)
MaxCalls == 3

Seeds == {1, 2}

(* values of time(NULL) *)
Clocks == {1, 2}

OnlyRng ==
    UNCHANGED <<status, layers, model, optimizer, pc, fit, call, events, ranges,
                hist, disk, heap, split, unit, mem>>

DeepcSeed ==
    /\ rng.calls < MaxCalls
    /\ \E seed \in Seeds :
         rng' = [called |-> TRUE, calls |-> rng.calls + 1,
                 run |-> <<deepc_seed(rng.run[1], seed), deepc_seed(rng.run[2], seed)>>]
    /\ OnlyRng

DenseCall ==
    /\ rng.calls < MaxCalls
    /\ \E units \in Dims, input_dim \in Dims, t1 \in Clocks, t2 \in Clocks :
         rng' = [rng EXCEPT
                   !.calls = @ + 1,
                   !.run = <<initialize_weights_xavier(rng.run[1], units, input_dim, t1),
                             initialize_weights_xavier(rng.run[2], units, input_dim, t2)>>]
    /\ OnlyRng

TrainTestSplitCall ==
    /\ rng.calls < MaxCalls
    /\ \E n \in 2..MaxRows, t1 \in Clocks, t2 \in Clocks :
         rng' = [rng EXCEPT
                   !.calls = @ + 1,
                   !.run = <<shuffle_rows(rng.run[1], n, t1),
                             shuffle_rows(rng.run[2], n, t2)>>]
    /\ OnlyRng

ShuffleDatasetCall ==
    /\ rng.calls < MaxCalls
    /\ \E n \in 1..MaxRows, t1 \in Clocks, t2 \in Clocks :
         rng' = [rng EXCEPT
                   !.calls = @ + 1,
                   !.run = <<shuffle_rows(rng.run[1], n, t1),
                             shuffle_rows(rng.run[2], n, t2)>>]
    /\ OnlyRng

NextSeed == DeepcSeed \/ DenseCall \/ TrainTestSplitCall \/ ShuffleDatasetCall

SpecSeed == Init /\ [][NextSeed]_vars

(* ======================================================================= *)
(*                                 claims                                  *)
(* ======================================================================= *)
InFlight == pc # "idle"

Min(a, b) == IF a < b THEN a ELSE b

(* C1: evaluate on a model that has layers but was never compiled is        *)
(* rejected as an error: no forward pass runs and no loss is returned.      *)
C1_EvaluateRequiresCompiled ==
    (call.op = "evaluate" /\ model.is_compiled = 0 /\ model.input_layer # NULL)
        => (call.outcome = "exit" /\ call.fwd = 0)

(* C2: fit on an uncompiled model, or with X.rows # y.rows, is rejected     *)
(* before any work: fit is never in progress for such a call, and the call  *)
(* leaves every layer, the model fields and the optimizer state unchanged.  *)
C2_FitRejectedBeforeWork ==
    /\ [](InFlight => (model.is_compiled # 0 /\ fit.X.rows = fit.y.rows))
    /\ [][(pc = "idle" /\ call'.op = "fit" /\ (model.is_compiled = 0 \/ pc' = "idle"))
            => (pc' = "idle" /\ layers' = layers /\ model' = model
                /\ optimizer' = optimizer)]_vars

C2_Witness ==
    /\ call.op = "fit" /\ call.outcome = "exit" /\ pc = "idle"
    /\ model.is_compiled = 1 /\ hist.total > 0

(* C3: adjacent layers of every reachable model agree:                      *)
(* layer[i].output_size = layer[i+1].input_size.                            *)
C3_AdjacentLayersCompatible ==
    status = "running" =>
    \A i \in 1..(Len(Chain) - 1) :
        layers[Chain[i]].output_size = layers[Chain[i + 1]].input_size

(* C4: add_layer on an empty model makes the layer head and tail; on a      *)
(* non-empty model a layer whose input_size equals the tail's output_size   *)
(* is linked after the tail and becomes the tail, num_layers + 1; otherwise *)
(* the call fails and chain, tail and num_layers are unchanged.             *)
C4_AddLayer ==
    [][(pc = "idle" /\ call'.op = "add_layer") =>
         LET new == Len(layers) + 1
         IN IF model.input_layer = NULL
            THEN /\ call'.outcome = "ok"
                 /\ model'.input_layer = new /\ model'.output_layer = new
                 /\ model'.num_layers = model.num_layers + 1
                 /\ layers'[new].input_size = call'.args[1]
                 /\ layers'[new].output_size = call'.args[2]
                 /\ ChainFrom(layers', model'.input_layer) = <<new>>
            ELSE IF layers[model.output_layer].output_size = call'.args[1]
                 THEN /\ call'.outcome = "ok"
                      /\ model'.input_layer = model.input_layer
                      /\ model'.output_layer = new
                      /\ layers'[model.output_layer].next = new
                      /\ layers'[new].next = NULL
                      /\ layers'[new].input_size = call'.args[1]
                      /\ layers'[new].output_size = call'.args[2]
                      /\ model'.num_layers = model.num_layers + 1
                      /\ ChainFrom(layers', model'.input_layer) = Append(Chain, new)
                 ELSE /\ call'.outcome = "exit" /\ status' = "exited"
                      /\ layers' = layers /\ model' = model]_vars

C4_Witness ==
    /\ call.op = "add_layer" /\ call.outcome = "ok"
    /\ Len(Chain) = 2 /\ model.output_layer = 2 /\ model.num_layers = 2

(* C5: compile without layers or with learning_rate <= 0 fails and leaves   *)
(* the model as it was; every successful compile (also a re-compile after   *)
(* training) sets is_compiled, binds optimizer kind, loss and learning      *)
(* rate, and installs a fresh OptimizerState with timestep 0 and no moment  *)
(* buffer allocated for any layer index.                                    *)
C5_Compile ==
    [][(pc = "idle" /\ call'.op = "compile") =>
         IF call'.outcome = "exit"
         THEN /\ (model.input_layer = NULL \/ call'.args[1] <= 0)
              /\ status' = "exited"
              /\ model' = model /\ optimizer' = optimizer
         ELSE /\ model.input_layer # NULL /\ call'.args[3] > 0
              /\ model'.is_compiled = 1
              /\ model'.optimizer_type = call'.args[1]
              /\ model'.loss_function = call'.args[2]
              /\ model'.learning_rate = call'.args[3]
              /\ model'.optimizer # NULL
              /\ optimizer'.type = call'.args[1]
              /\ optimizer'.learning_rate = call'.args[3]
              /\ optimizer'.timestep = 0
              /\ DOMAIN optimizer'.moments = {}]_vars

C5_Witness ==
    /\ call.op = "compile" /\ call.outcome = "ok"
    /\ optimizer.type = "SGD" /\ optimizer.timestep = 0
    /\ \E i \in 1..Len(layers) : layers[i].weights.ver > 0

(* What one batch step must call on the current chain: forward passes head *)
(* to tail, the loss, the loss gradient, backward passes tail to head with  *)
(* each layer fed what its successor returned, updates head to tail.        *)
Step(ev, layer, index, gin, gout) ==
    [ev |-> ev, layer |-> layer, index |-> index, gin |-> gin, gout |-> gout]

ExpectedStep ==
    LET L == Len(Chain)
    IN [j \in 1..L |-> Step("forward_pass", Chain[j], 0, 0, 0)]
       \o <<Step("compute_loss", 0, 0, 0, 0),
            Step("compute_loss_gradient", 0, 0, 0, LossOrigin)>>
       \o [j \in 1..L |->
             Step("backward_pass", Chain[L + 1 - j], 0,
                  IF j = 1 THEN LossOrigin ELSE Chain[L + 2 - j],
                  Chain[L + 1 - j])]
       \o [j \in 1..L |-> Step("update_weights", Chain[j], j - 1, 0, 0)]

Calls(log) ==
    [j \in 1..Len(log) |->
        Step(log[j].ev, log[j].layer, log[j].index, log[j].gin, log[j].gout)]

IsPrefix(a, b) == Len(a) <= Len(b) /\ \A j \in 1..Len(a) : a[j] = b[j]

StepDone == pc = "batch" /\ hist'.total = hist.total + 1

(* C6: inside a batch step the order is forward 0..L-1, loss, loss          *)
(* gradient, backward L-1..0 (the last layer gets the loss gradient, layer  *)
(* i what layer i+1 returned), update 0..L-1 with layer_index = position;   *)
(* no weight or bias changes between the first forward and last backward.   *)
C6_BatchStepOrder ==
    /\ [](InFlight =>
            /\ IsPrefix(Calls(events), ExpectedStep)
            /\ (status = "running" /\ events # <<>>) => Calls(events) = ExpectedStep
            /\ \A j \in 1..Len(events) :
                  events[j].ev # "update_weights" => events[j].p = events[1].p)
    /\ [][/\ StepDone => Calls(events') = ExpectedStep
          /\ (pc = "batch" /\ events' # <<>>) => (events'[1].p = Parameters(layers))]_vars

C6_Witness ==
    /\ InFlight /\ status = "running" /\ Len(Chain) = 2
    /\ Len(events) = 8
    /\ events[5].gin = LossOrigin /\ events[6].gin = events[5].gout
    /\ events[7].index = 0 /\ events[8].index = 1

EffectiveBatch(n, requested) ==
    IF 1 <= requested /\ requested <= n THEN requested ELSE n

CeilDiv(n, b) == CHOOSE m \in 0..n : m * b >= n /\ (m - 1) * b < n

ExpectedRanges(n, b) ==
    [k \in 1..CeilDiv(n, b) |-> <<(k - 1) * b, Min(k * b, n)>>]

(* C7: with n = X.rows and b = batch_size if 1 <= batch_size <= n else n,   *)
(* each epoch runs the batches [k*b, min((k+1)*b, n)), k = 0..ceil(n/b)-1,  *)
(* in increasing order; no batch is empty and every row is in exactly one.  *)
C7_BatchPartition ==
    /\ [](InFlight =>
            LET n   == fit.X.rows
                b   == fit.batch_size
                exp == ExpectedRanges(n, b)
            IN /\ call.args # <<>> => b = EffectiveBatch(n, call.args[1])
               /\ IsPrefix(ranges, exp)
               /\ status = "running" => Len(ranges) = fit.batch
               /\ \A k \in 1..Len(ranges) : ranges[k][1] < ranges[k][2]
               /\ (ranges # <<>> /\ model.input_layer # NULL) =>
                     LET cached == layers[model.input_layer].input
                         last   == ranges[Len(ranges)]
                     IN cached.src = last /\ cached.rows = last[2] - last[1]
               /\ pc = "epoch_end" =>
                     /\ ranges = exp
                     /\ \A r \in 0..(n - 1) :
                           Cardinality({k \in 1..Len(ranges) :
                                          ranges[k][1] <= r /\ r < ranges[k][2]}) = 1)
    /\ [][(InFlight /\ pc' # "idle") =>
             (fit'.batch_size = fit.batch_size /\ fit'.X = fit.X /\ fit'.y = fit.y)]_vars

C7_Witness ==
    /\ pc = "epoch_end" /\ fit.X.rows = 3 /\ fit.batch_size = 2
    /\ ranges = <<(<<0, 2>>), (<<2, 3>>)>>

AdamBound == model.optimizer # NULL /\ optimizer.type = "ADAM"

NewOptimizer == pc = "idle" /\ call'.op \in {"compile", "load_model"}

(* C8: the Adam timestep is 0 after compile, never decreases, and grows by  *)
(* one per update_weights call: after k batch steps on an L-layer model it  *)
(* is k*L, and layer i in the k-th step is corrected with t = (k-1)*L+i+1;  *)
(* predict and evaluate never change it.                                    *)
C8_AdamTimestep ==
    /\ []((AdamBound /\ hist.lens \subseteq {Len(Chain)}) =>
            LET L == Len(Chain)
            IN /\ optimizer.timestep = hist.steps * L
               /\ \A j \in 1..Len(events) :
                     events[j].ev = "update_weights" =>
                        events[j].t = (hist.steps - 1) * L + events[j].index + 1)
    /\ [][/\ (~NewOptimizer) => (optimizer'.timestep >= optimizer.timestep)
          /\ (pc = "idle" /\ call'.op = "compile" /\ call'.outcome = "ok")
                => (optimizer'.timestep = 0)
          /\ (pc = "idle" /\ call'.op \in {"predict", "evaluate"})
                => (optimizer' = optimizer)
          /\ (AdamBound /\ StepDone)
                => (optimizer'.timestep = optimizer.timestep + Len(Chain))]_vars

C8_Witness ==
    /\ AdamBound /\ Len(Chain) = 2 /\ hist.steps = 2 /\ InFlight
    /\ optimizer.timestep = 4
    /\ Len(events) = 8 /\ events[7].t = 3 /\ events[8].t = 4

(* C9: the moment buffers of layer index i are absent until the first       *)
(* update with that index, are created with the shapes of that layer's      *)
(* weights and biases, all zero before the first moment update, and are     *)
(* never re-created, resized or re-zeroed later, also across fit calls.     *)
C9_AdamMoments ==
    [][(~NewOptimizer) =>
         /\ DOMAIN optimizer.moments \subseteq DOMAIN optimizer'.moments
         /\ (DOMAIN optimizer'.moments # DOMAIN optimizer.moments) => StepDone
         /\ \A i \in DOMAIN optimizer'.moments :
               LET new == optimizer'.moments[i]
               IN IF i \in DOMAIN optimizer.moments
                  THEN LET old == optimizer.moments[i]
                       IN /\ [new EXCEPT !.nupd = 0] = [old EXCEPT !.nupd = 0]
                          /\ new.nupd = IF StepDone /\ i < Len(Chain)
                                        THEN old.nupd + 1 ELSE old.nupd
                  ELSE /\ i < Len(Chain)
                       /\ new.wrows = layers[Chain[i + 1]].weights.rows
                       /\ new.wcols = layers[Chain[i + 1]].weights.cols
                       /\ new.brows = layers[Chain[i + 1]].biases.rows
                       /\ new.bcols = layers[Chain[i + 1]].biases.cols
                       /\ new.nupd = 1]_vars

C9_Witness ==
    /\ AdamBound /\ pc = "idle" /\ call.op = "fit"
    /\ DOMAIN optimizer.moments = {0, 1}
    /\ optimizer.moments[0].nupd = 2 /\ optimizer.moments[1].nupd = 1

ShapeCompatible ==
    /\ model.input_layer # NULL
    /\ fit.X.rows = fit.y.rows
    /\ fit.X.cols = layers[model.input_layer].input_size
    /\ fit.y.cols = layers[model.output_layer].output_size

(* C10: on a compiled model with shape-compatible data fit never stops      *)
(* early: it performs exactly max(epochs, 0) * ceil(n/b) batch steps.       *)
C10_FitRunsAllSteps ==
    (InFlight /\ ShapeCompatible) =>
        LET total == fit.epochs * CeilDiv(fit.X.rows, fit.batch_size)
        IN /\ status = "running"
           /\ fit.epochs > 0
           /\ hist.fitsteps <= total
           /\ (pc = "epoch_end" /\ fit.epoch + 1 = fit.epochs)
                 => hist.fitsteps = total

(* C11: after a predict(input) that returns, forward_pass has run exactly  *)
(* once on each layer in head-to-tail order, the head's cached input is the *)
(* input, each later layer's cached input is its predecessor's cached       *)
(* output, and the returned matrix is the tail's cached output, whatever    *)
(* earlier predict, fit or evaluate calls left in the caches.               *)
C11_PredictCaches ==
    (call.op = "predict" /\ call.outcome = "ok") =>
        LET L      == Len(Chain)
            input  == call.args[1]
            result == call.args[2]
        IN /\ L >= 1
           /\ call.fwd = L
           /\ result.path = Chain
           /\ layers[Chain[1]].input = input
           /\ \A i \in 1..(L - 1) :
                 layers[Chain[i + 1]].input = layers[Chain[i]].output
           /\ \A i \in 1..L :
                 /\ layers[Chain[i]].output.path = [j \in 1..i |-> Chain[j]]
                 /\ layers[Chain[i]].output.rows = input.rows
                 /\ layers[Chain[i]].output.cols = layers[Chain[i]].output_size
                 /\ layers[Chain[i]].z = [layers[Chain[i]].output EXCEPT !.pre = TRUE]
           /\ result = layers[Chain[L]].output

C11_Witness ==
    /\ call.op = "predict" /\ call.outcome = "ok"
    /\ Len(Chain) = 2 /\ hist.total > 0
    /\ layers[Chain[2]].input = layers[Chain[1]].output

Frozen(layer) ==
    [weights  |-> layer.weights,  biases  |-> layer.biases,
     dweights |-> layer.dweights, dbiases |-> layer.dbiases,
     input_size |-> layer.input_size, output_size |-> layer.output_size,
     activation |-> layer.activation, next |-> layer.next]

(* C12: evaluate(X, y) runs exactly one forward pass over all layers and    *)
(* leaves every layer's weights, biases and gradient buffers and the whole  *)
(* optimizer state unchanged; only the layers' forward caches change.       *)
C12_EvaluateFrame ==
    [][(pc = "idle" /\ call'.op = "evaluate") =>
         /\ optimizer' = optimizer
         /\ model' = model
         /\ Len(layers') = Len(layers)
         /\ \A i \in 1..Len(layers) : Frozen(layers'[i]) = Frozen(layers[i])
         /\ call'.fwd <= Len(Chain)
         /\ call'.outcome = "ok" =>
               /\ call'.fwd = Len(Chain)
               /\ \A i \in 1..Len(Chain) :
                     layers'[Chain[i]].output.path = [j \in 1..i |-> Chain[j]]]_vars

C12_Witness ==
    /\ call.op = "evaluate" /\ call.outcome = "ok" /\ call.fwd = 2
    /\ optimizer.type = "ADAM" /\ optimizer.timestep > 0
    /\ \E i \in 1..Len(layers) : layers[i].dweights.g # <<>>

SgdBound == model.optimizer # NULL /\ optimizer.type = "SGD"

(* C13: with the SGD optimizer update_weights changes only the layer's      *)
(* weights and biases; gradient buffers, caches, the optimizer's timestep   *)
(* (which stays 0) and learning rate are unchanged and no moment buffer is  *)
(* ever allocated, so an update depends neither on layer_index nor on how   *)
(* many updates ran before.                                                 *)
C13_SgdFrame ==
    SgdBound =>
       /\ optimizer.timestep = 0
       /\ DOMAIN optimizer.moments = {}
       /\ optimizer.learning_rate = model.learning_rate
       /\ \A j \in 1..Len(events) :
             events[j].ev = "update_weights" => events[j].t = 0
       /\ \A id \in 1..Len(layers) : \A layer_index \in {0, 1, max_layers} :
             LET r == update_weights(layers[id], optimizer, layer_index)
             IN /\ r.ok
                /\ r.opt = optimizer
                /\ r.layer = [layers[id] EXCEPT !.weights.ver = @ + 1,
                                                !.biases.ver = @ + 1]

C13_Witness ==
    /\ SgdBound /\ InFlight /\ hist.steps = 2 /\ Len(Chain) = 2
    /\ Len(events) = 8 /\ events[8].ev = "update_weights" /\ events[8].index = 1
    /\ layers[Chain[2]].weights.ver = 2

AfterLoss(ev) ==
    ev \in {"compute_loss", "compute_loss_gradient", "backward_pass", "update_weights"}

Gradients(ls) == [i \in 1..Len(ls) |-> <<ls[i].dweights, ls[i].dbiases>>]

(* C17: compute_loss and compute_loss_gradient fail, producing neither a    *)
(* loss nor a gradient, whenever y_true or y_pred holds a NaN or their      *)
(* shapes differ; so in fit no backward pass and no optimizer update is     *)
(* ever performed for a batch whose targets or predictions hold a NaN.      *)
C17_NaNStopsBatch ==
    /\ []((InFlight /\ events # <<>>) =>
            LET last   == ranges[Len(ranges)]
                y_pred == layers[model.output_layer].output
            IN (\E j \in 1..Len(events) : AfterLoss(events[j].ev)) =>
                  /\ ~has_nan_in(fit.y, last[1], last[2])
                  /\ ~has_nan_in(fit.X, last[1], last[2])
                  /\ ~y_pred.nan
                  /\ y_pred.rows = last[2] - last[1]
                  /\ y_pred.cols = fit.y.cols)
    /\ [][(pc = "batch" /\ status = "running") =>
            LET start_idx == fit.batch * fit.batch_size
                end_idx   == Min((fit.batch + 1) * fit.batch_size, fit.num_samples)
                p         == predict(model, layers, DataMatrix(1, fit.X.cols, 0, 1))
            IN (\/ has_nan_in(fit.y, start_idx, end_idx)
                \/ has_nan_in(fit.X, start_idx, end_idx)
                \/ (p.ok /\ p.output.cols # fit.y.cols)) =>
                  /\ status' = "exited"
                  /\ call'.outcome = "exit"
                  /\ \A j \in 1..Len(events') : ~AfterLoss(events'[j].ev)
                  /\ Parameters(layers') = Parameters(layers)
                  /\ Gradients(layers') = Gradients(layers)
                  /\ optimizer' = optimizer
                  /\ hist' = hist]_vars

C17_Witness ==
    /\ status = "exited" /\ call.op = "fit" /\ call.outcome = "exit"
    /\ hist.fitsteps = 1 /\ Len(Chain) = 2
    /\ fit.X.nan = {} /\ fit.y.nan = {fit.batch * fit.batch_size}
    /\ Len(events) = 2 /\ events[2].ev = "forward_pass"
    /\ ~layers[model.output_layer].output.nan

SameLayer(a, b) ==
    /\ a.input_size = b.input_size
    /\ a.output_size = b.output_size
    /\ a.activation = b.activation
    /\ a.weights = b.weights
    /\ a.biases = b.biases

RECURSIVE SameChain(_, _, _, _)
SameChain(ls1, c1, ls2, c2) ==
    IF c1 = NULL \/ c2 = NULL THEN c1 = c2
    ELSE /\ SameLayer(ls1[c1], ls2[c2])
         /\ SameChain(ls1, ls1[c1].next, ls2, ls2[c2].next)

SameModel(m1, ls1, m2, ls2) ==
    /\ m2.name = m1.name
    /\ m2.num_layers = m1.num_layers
    /\ m2.is_compiled = m1.is_compiled
    /\ m2.optimizer_type = m1.optimizer_type
    /\ m2.loss_function = m1.loss_function
    /\ m2.learning_rate = m1.learning_rate
    /\ SameChain(ls1, m1.input_layer, ls2, m2.input_layer)

(* C14: for every model with at least one layer, load_model applied to the *)
(* file save_model wrote for it returns a model with the same name, layer  *)
(* count, compiled flag, optimizer kind, loss kind and learning rate and,  *)
(* layer by layer in order, the same input_size, output_size, activation   *)
(* and weight and bias values.                                             *)
C14_SaveLoadRoundTrip ==
    [][(/\ LoadModelFile
        /\ disk.text = save_model(model, layers)
        /\ model.num_layers >= 1)
       => (/\ call'.outcome = "ok"
           /\ SameModel(model, layers, model', layers'))]_vars

(* C15: load_model returns no model whenever the file does not begin with  *)
(* the DEEPC_MODEL_V2 line or ends before every declared header line,      *)
(* layer block and parameter line has been read.  The file here is a       *)
(* proper prefix of what save_model wrote for a model whose name is one    *)
(* line, so that every line of the whole file is one load_model reads.     *)
C15_TruncatedFileRejected ==
    [][(LoadModelFile /\ disk.cut /\ Len(model.name) = 1)
       => call'.outcome \in {"null", "exit"}]_vars

(* what a weight file declares: its layer count, and the rows and cols of *)
(* its WEIGHTS and of its BIASES lines, in order                           *)
FileCount(text) == text[2].a

FileDims(text, tag) ==
    LET at == SelectSeq([k \in 1..Len(text) |-> k], LAMBDA k : text[k].kind = tag)
    IN [i \in 1..Len(at) |-> <<text[at[i]].a, text[at[i]].b>>]

(* the values that follow the n-th line with this tag *)
FileValue(text, tag, n) ==
    LET at == SelectSeq([k \in 1..Len(text) |-> k], LAMBDA k : text[k].kind = tag)
    IN text[at[n] + 1].a

FileMatches(text, m, ls) ==
    LET chain == ChainFrom(ls, m.input_layer)
        w     == FileDims(text, "WEIGHTS")
        b     == FileDims(text, "BIASES")
    IN /\ FileCount(text) = m.num_layers
       /\ Len(w) = Len(chain)
       /\ Len(b) = Len(chain)
       /\ \A i \in 1..Len(chain) :
            /\ w[i] = <<ls[chain[i]].weights.rows, ls[chain[i]].weights.cols>>
            /\ b[i] = <<ls[chain[i]].biases.rows, ls[chain[i]].biases.cols>>

(* C16: load_weights succeeds, overwriting every layer's weights and       *)
(* biases with the file's values in layer order, exactly when the file's   *)
(* layer count equals num_layers and every WEIGHTS/BIASES block has the    *)
(* shape of the corresponding layer's matrix; any difference makes it      *)
(* fail.  Nothing but the parameter values of the layers changes.          *)
C16_LoadWeights ==
    [][LoadWeights =>
         LET chain == Chain
         IN /\ (call'.outcome = "ok") <=> FileMatches(disk.text, model, layers)
            /\ call'.outcome \in {"ok", "error"}
            /\ call'.outcome = "ok" =>
                 \A i \in 1..Len(chain) :
                    /\ layers'[chain[i]].weights.ver =
                          FileValue(disk.text, "WEIGHTS", i)
                    /\ layers'[chain[i]].biases.ver =
                          FileValue(disk.text, "BIASES", i)
            /\ Len(layers') = Len(layers)
            /\ \A id \in 1..Len(layers) :
                  layers'[id] = [layers[id] EXCEPT
                                   !.weights.ver = layers'[id].weights.ver,
                                   !.biases.ver = layers'[id].biases.ver]]_vars

C16_Witness ==
    /\ call.op = "load_weights"
    /\ call.outcome = "ok"
    /\ Len(Chain) >= 2
    /\ \A i \in 1..Len(Chain) : layers[Chain[i]].weights.ver = 2 * i - 1

Released == {heap.released[k] : k \in 1..Len(heap.released)}

(* C18: after free_model on a model reached by add_layer, compile          *)
(* (possibly repeated), predict, fit and evaluate, every object allocated  *)
(* on the model's behalf has been released exactly once: every layer with  *)
(* its matrices and caches, every OptimizerState a compile created with    *)
(* its moment buffers, and the name; nothing is released twice.            *)
C18_FreeModelReleasesAll ==
    status = "freed" =>
       /\ Released = model_allocs(model, layers, optimizer, heap.compiles)
                        \cup heap.lost
       /\ Cardinality(Released) = Len(heap.released)

RowsOf(m) == {m[i] : i \in 1..Len(m)}

(* C20: for n rows and test_size in (0,1) with 1 <= floor(n * test_size)   *)
(* < n, train_test_split returns test matrices of floor(n * test_size)     *)
(* rows and train matrices of the remaining rows; for every outcome of the *)
(* shuffle the original rows used by train and by test are disjoint and    *)
(* together are all n rows, each once, and each X row is paired with its   *)
(* own y row.                                                              *)
C20_TrainTestSplit ==
    (/\ split.op = "train_test_split"
     /\ split.yrows = split.rows
     /\ split.tenths > 0 /\ split.tenths < 10
     /\ 1 <= (split.rows * split.tenths) \div 10
     /\ (split.rows * split.tenths) \div 10 < split.rows)
    => LET n == split.rows
           k == (n * split.tenths) \div 10
       IN /\ split.outcome = "ok"
          /\ Len(split.X_test) = k /\ Len(split.y_test) = k
          /\ Len(split.X_train) = n - k /\ Len(split.y_train) = n - k
          /\ RowsOf(split.X_train) \cap RowsOf(split.X_test) = {}
          /\ RowsOf(split.X_train) \cup RowsOf(split.X_test) = 0..(n - 1)
          /\ Cardinality(RowsOf(split.X_train)) = n - k
          /\ Cardinality(RowsOf(split.X_test)) = k
          /\ split.y_train = split.X_train
          /\ split.y_test = split.X_test

C20_Witness ==
    /\ split.op = "train_test_split"
    /\ split.outcome = "ok"
    /\ Len(split.X_test) = 2
    /\ Len(split.X_train) = 2
    /\ split.X_train # <<0, 1>>

(* C19: two runs that call deepc_seed with the same seed and then make the *)
(* same Dense, train_test_split and shuffle_dataset calls obtain the same  *)
(* initial weights, splits and permutations, whatever the wall-clock time. *)
C19_SeedReproducible ==
    rng.called => rng.run[1].out = rng.run[2].out

(* C24: if load_weights fails (bad header, layer-count mismatch, or a      *)
(* weights or biases shape mismatch at any layer), no layer's weights or   *)
(* biases have been modified, the layers before the mismatch included.     *)
C24_FailedLoadChangesNothing ==
    [][(LoadWeights /\ call'.outcome = "error") => layers' = layers]_vars

(* C25: in every state of a running program the model holds an             *)
(* OptimizerState exactly when is_compiled is true, and that state's kind  *)
(* and learning rate are the model's optimizer_type and learning_rate.     *)
C25_OptimizerIffCompiled ==
    status = "running" =>
       /\ (model.optimizer # NULL) <=> (model.is_compiled # 0)
       /\ model.optimizer # NULL =>
             /\ optimizer.type = model.optimizer_type
             /\ optimizer.learning_rate = model.learning_rate
       /\ model.optimizer = NULL => optimizer = NoOptimizer

C25_Witness ==
    /\ status = "running"
    /\ call.op = "load_model"
    /\ model.is_compiled # 0
    /\ optimizer.type = "ADAM"
    /\ optimizer.learning_rate = model.learning_rate

(* ------------------------------ shuffling ------------------------------ *)
MaxCols == 2

(* a matrix whose row i (from 0) holds the sample number i in every column *)
SampleMatrix(rows, cols) == [i \in 0..(rows - 1) |-> [c \in 0..(cols - 1) |-> i]]

(* the loop of shuffle_dataset from position i down to 1: the X rows i and *)
(* j are exchanged over all X->cols columns, the y rows in column 0        *)
RECURSIVE shuffle_loop(_, _, _, _)
shuffle_loop(X, y, i, js) ==
    IF ~(i > 0) THEN [X |-> X, y |-> y]
    ELSE LET j == js[i]
         IN shuffle_loop([X EXCEPT ![i] = X[j], ![j] = X[i]],
                         [y EXCEPT ![i][0] = y[j][0], ![j][0] = y[i][0]],
                         i - 1, js)

shuffle_dataset(X, y, num_samples, js) == shuffle_loop(X, y, num_samples - 1, js)

ShuffleDataset ==
    /\ split.outcome # "exit"
    /\ \E xrows \in 1..MaxRows, xcols \in 1..MaxCols, ycols \in 1..MaxCols :
       \E yrows \in {xrows, xrows + 1} :
         IF ~(xrows = yrows)
         THEN split' = [op |-> "shuffle_dataset", outcome |-> "exit",
                        rows |-> xrows, yrows |-> yrows,
                        X |-> SampleMatrix(xrows, xcols),
                        y |-> SampleMatrix(yrows, ycols)]
         ELSE \E js \in Draws(xrows) :
                split' = [op |-> "shuffle_dataset", outcome |-> "ok",
                          rows |-> xrows, yrows |-> yrows]
                         @@ shuffle_dataset(SampleMatrix(xrows, xcols),
                                            SampleMatrix(yrows, ycols), xrows, js)
    /\ UNCHANGED <<status, layers, model, optimizer, pc, fit, call, events, ranges,
                   hist, disk, heap, rng, unit, mem>>

NextShuffle == ShuffleDataset

SpecShuffle == Init /\ [][NextShuffle]_vars

(* C30: after shuffle_dataset returns, every row index holds the complete  *)
(* X row and the complete y row (all target columns) of one and the same   *)
(* original sample, and every original sample is still present once.       *)
C30_ShuffleKeepsPairs ==
    (split.op = "shuffle_dataset" /\ split.outcome = "ok") =>
       /\ \A i \in DOMAIN split.X :
            /\ \A c \in DOMAIN split.X[i] : split.X[i][c] = split.X[i][0]
            /\ \A c \in DOMAIN split.y[i] : split.y[i][c] = split.X[i][0]
       /\ \A s \in 0..(split.rows - 1) : \E i \in DOMAIN split.X : split.X[i][0] = s

(* the same for targets of one column *)
C30_OneColumn ==
    (split.op = "shuffle_dataset" /\ split.outcome = "ok") =>
       /\ \A i \in DOMAIN split.X :
            /\ \A c \in DOMAIN split.X[i] : split.X[i][c] = split.X[i][0]
            /\ split.y[i][0] = split.X[i][0]
       /\ \A s \in 0..(split.rows - 1) : \E i \in DOMAIN split.X : split.X[i][0] = s

(* --------------------------- one layer, by hand ------------------------ *)
OnlyUnit ==
    UNCHANGED <<status, layers, model, optimizer, pc, fit, call, events, ranges,
                hist, disk, heap, split, rng, mem>>

UnitDense ==
    /\ unit.op = "none"
    /\ \E units \in Dims, input_dim \in Dims, activation \in UnitActivations,
          s \in Patterns :
         unit' = [NoUnit EXCEPT !.op = "Dense",
                                !.layer = DenseValues(units, activation, input_dim, s)]
    /\ OnlyUnit

UnitForward ==
    /\ unit.op # "none" /\ unit.outcome = "ok"
    /\ \E rows \in 1..MaxBatch, cols \in Dims, s \in Patterns :
         LET input == PatternMatrix(rows, cols, s)
             r == forward_pass_values(unit.layer, input)
         IN unit' = [op |-> "forward_pass", outcome |-> r.outcome, layer |-> r.layer,
                     old |-> unit.layer, arg |-> input, ret |-> r.ret]
    /\ OnlyUnit

UnitBackward ==
    /\ unit.op # "none" /\ unit.outcome = "ok"
    /\ \E rows \in 1..MaxBatch, cols \in Dims, s \in Patterns :
         LET gradient == PatternMatrix(rows, cols, s)
             r == backward_pass_values(unit.layer, gradient)
         IN unit' = [op |-> "backward_pass", outcome |-> r.outcome, layer |-> r.layer,
                     old |-> unit.layer, arg |-> gradient, ret |-> r.ret]
    /\ OnlyUnit

NextUnit == UnitDense \/ UnitForward \/ UnitBackward

SpecUnit == Init /\ [][NextUnit]_vars

(* C21: backward_pass on a layer whose cache is empty (no forward_pass has *)
(* run) ends in an error and leaves dweights and dbiases as they were;     *)
(* forward_pass with input.cols # input_size ends in an error and leaves   *)
(* the cached input, z and output as they were.                            *)
C21_FailedPassChangesNothing ==
    /\ (unit.op = "backward_pass" /\ unit.old.z = NullMatrix) =>
          /\ unit.outcome = "exit"
          /\ unit.layer.dweights = unit.old.dweights
          /\ unit.layer.dbiases = unit.old.dbiases
    /\ (unit.op = "forward_pass" /\ unit.arg.cols # unit.old.input_size) =>
          /\ unit.outcome = "exit"
          /\ unit.layer.input = unit.old.input
          /\ unit.layer.z = unit.old.z
          /\ unit.layer.output = unit.old.output

C21_Witness ==
    /\ unit.op = "forward_pass"
    /\ unit.arg.cols # unit.old.input_size
    /\ unit.outcome = "exit"
    /\ unit.layer.input # NullMatrix

C21_WitnessBackward ==
    /\ unit.op = "backward_pass"
    /\ unit.old.z = NullMatrix
    /\ unit.outcome = "exit"

(* delta[i][j] of the last backward pass, from its argument and the z the  *)
(* layer held *)
DeltaAt(i, j) ==
    unit.arg.data[i][j] *
       (IF unit.old.activation = "RELU"
        THEN (IF unit.old.z.data[i][j] > 0 THEN 1 ELSE 0)
        ELSE 1)

(* C22: for a layer with cached input X (batch x in) and cached z,         *)
(* backward_pass(G) with G of shape batch x out puts (delta^T X) / batch   *)
(* into dweights and the column means of delta into dbiases, whatever they *)
(* held before, where delta = G .* activation_derivative(z); it returns    *)
(* delta W of shape batch x in and leaves weights, biases and the cached   *)
(* input, z and output unchanged.                                          *)
C22_BackwardPass ==
    (/\ unit.op = "backward_pass"
     /\ unit.old.z # NullMatrix
     /\ unit.arg.rows = unit.old.input.rows
     /\ unit.arg.cols = unit.old.output_size) =>
       LET batch == unit.arg.rows
           out   == unit.old.output_size
           in    == unit.old.input_size
           X     == unit.old.input
           W     == unit.old.weights
       IN /\ unit.outcome = "ok"
          /\ \A i \in 0..(out - 1), j \in 0..(in - 1) :
               LET q == unit.layer.dweights.data[i][j]
               IN /\ q.den # 0
                  /\ q.num * batch =
                       q.den * sum_loop([k \in 0..(batch - 1) |->
                                           DeltaAt(k, i) * X.data[k][j]], batch)
          /\ \A i \in 0..(out - 1) :
               LET q == unit.layer.dbiases.data[i][0]
               IN /\ q.den # 0
                  /\ q.num * batch =
                       q.den * sum_loop([k \in 0..(batch - 1) |-> DeltaAt(k, i)], batch)
          /\ unit.ret.rows = batch /\ unit.ret.cols = in
          /\ \A r \in 0..(batch - 1), c \in 0..(in - 1) :
               unit.ret.data[r][c] =
                  sum_loop([o \in 0..(out - 1) |-> DeltaAt(r, o) * W.data[o][c]], out)
          /\ unit.layer.weights = unit.old.weights
          /\ unit.layer.biases = unit.old.biases
          /\ unit.layer.input = unit.old.input
          /\ unit.layer.z = unit.old.z
          /\ unit.layer.output = unit.old.output

(* a second backward pass over two rows, onto gradient buffers that held   *)
(* other values *)
C22_Witness ==
    /\ unit.op = "backward_pass"
    /\ unit.outcome = "ok"
    /\ unit.arg.rows = 2
    /\ unit.arg.rows = unit.old.input.rows
    /\ unit.old.activation = "RELU"
    /\ unit.old.dweights # DenseValues(1, "RELU", 1, 0).dweights
    /\ unit.layer.dweights # unit.old.dweights
    /\ \E i \in 0..(unit.old.output_size - 1) :
          unit.layer.dbiases.data[i][0].num % 2 = 1

(* --------------------------- train, save, reload ----------------------- *)
(* The scenario: a model is built, trained by a call of fit after compile, *)
(* saved once, loaded back and trained by one more call of fit.            *)
TrainBuilt == disk = NoDisk /\ call.op = "compile" /\ FitCall

TrainLoaded == call.op = "load_model" /\ FitCall

ReloadModel == call.op = "save_model" /\ LoadModelFile

NextReload ==
    \/ BuildLayer
    \/ BuildCompile
    \/ TrainBuilt
    \/ FitBatch
    \/ FitEpochEnd
    \/ SaveModel
    \/ ReloadModel
    \/ TrainLoaded

SpecReload == Init /\ [][NextReload]_vars

(* the first batch step of the fit call that follows load_model *)
FirstStepAfterLoad ==
    FitBatch /\ disk # NoDisk /\ fit.epoch = 0 /\ fit.batch = 0

(* C28: the optimizer state is not persisted.  load_model of a file saved  *)
(* from a compiled model returns an optimizer with timestep 0 and no       *)
(* moment buffers, whatever the saved model's optimizer held; the first    *)
(* fit step after loading an Adam model allocates the moments of every     *)
(* layer, updates each once from zero and uses the timesteps 1 .. L.       *)
C28_OptimizerNotPersisted ==
    [][/\ (ReloadModel /\ call'.outcome = "ok" /\ model.is_compiled # 0) =>
             /\ optimizer'.timestep = 0
             /\ optimizer'.moments = NoMoments
             /\ optimizer'.type = model.optimizer_type
       /\ (FirstStepAfterLoad /\ status' = "running"
             /\ model.optimizer_type = "ADAM") =>
             /\ optimizer'.timestep = Len(layers)
             /\ DOMAIN optimizer'.moments = 0..(Len(layers) - 1)
             /\ \A i \in DOMAIN optimizer'.moments : optimizer'.moments[i].nupd = 1
             /\ {e.t : e \in {events'[k] : k \in {n \in 1..Len(events') :
                                   events'[n].ev = "update_weights"}}}
                  = 1..Len(layers)]_vars

(* a reloaded Adam model, trained before it was saved and once after *)
C28_Witness ==
    /\ disk # NoDisk
    /\ call.op = "fit"
    /\ status = "running"
    /\ optimizer.type = "ADAM"
    /\ optimizer.timestep = Len(layers)
    /\ Len(layers) = 2
    /\ hist.total = 2

(* ------------------------------ deep models ---------------------------- *)
(* Models of max_layers layers and up to MaxExtra more.  One batch step of *)
(* fit on such a model is followed loop iteration by loop iteration: pc is *)
(* the loop fit is in, and the call record holds the loop's variables      *)
(* (the layer it is at, and the matrix, gradient or layer_index it         *)
(* carries).                                                               *)
MaxExtra == 1

(* the model and layers after n calls of add_layer(Dense(1, LINEAR, 1)):   *)
(* layer i is linked to layer i + 1 and the last layer is the tail         *)
deep_model(n) ==
    [model  |-> [create_model(DefaultName) EXCEPT !.input_layer = 1,
                                                  !.output_layer = n,
                                                  !.num_layers = n],
     layers |-> [i \in 1..n |->
                   [Dense(1, "LINEAR", 1) EXCEPT !.next = IF i < n THEN i + 1 ELSE NULL]]]

InitDeep ==
    /\ \E n \in max_layers..(max_layers + MaxExtra) :
         /\ model = deep_model(n).model
         /\ layers = deep_model(n).layers
    /\ status = "running"
    /\ optimizer = NoOptimizer
    /\ pc = "idle"
    /\ fit = FitIdle
    /\ call = Call("create_model", "ok", 0, <<>>)
    /\ events = <<>>
    /\ ranges = <<>>
    /\ hist = [total |-> 0, steps |-> 0, lens |-> {}, fitsteps |-> 0]
    /\ disk = NoDisk
    /\ heap = NoHeap
    /\ split = NoSplit
    /\ rng = NoRng
    /\ unit = NoUnit
    /\ mem = NoMem

(* one more add_layer on the deep model *)
DeepAddLayer ==
    /\ Idle
    /\ call.op = "create_model"
    /\ \E units \in Dims, activation \in Activations, input_dim \in Dims :
         LET layer == Dense(units, activation, input_dim)
         IN IF add_layer_ok(model, layers, layer)
            THEN /\ model' = add_layer(model, layers, layer).model
                 /\ layers' = add_layer(model, layers, layer).layers
                 /\ status' = status
                 /\ call' = Call("add_layer", "ok", 0, <<input_dim, units>>)
            ELSE /\ status' = "exited"
                 /\ call' = Call("add_layer", "exit", 0, <<input_dim, units>>)
                 /\ UNCHANGED <<model, layers>>
    /\ UNCHANGED <<optimizer, pc, fit, events, ranges, hist>>
    /\ UNCHANGED aux

DeepCompile == call.op \in {"create_model", "add_layer"} /\ Compile

(* fit(model, X, y, epochs, 0, 0) on one sample: one batch in each epoch;  *)
(* the first batch step begins with predict's copy of X_batch              *)
DeepFit ==
    /\ Idle
    /\ call.op = "compile"
    /\ \E epochs \in 1..MaxSteps, ycols \in Dims :
         LET X == [rows |-> 1, cols |-> layers[model.input_layer].input_size, nan |-> {}]
             y == [rows |-> 1, cols |-> ycols, nan |-> {}]
         IN /\ ~fit_rejected(model, X, y)
            /\ fit' = [FitIdle EXCEPT !.X = X, !.y = y, !.epochs = epochs,
                                      !.batch_size = fit_batch_size(0, 1),
                                      !.num_samples = 1,
                                      !.num_batches = fit_num_batches(1, 1)]
            /\ pc' = "forward"
            /\ call' = Call("fit", "running", 0,
                            <<model.input_layer,
                              copy_matrix(DataMatrix(1, X.cols, 0, 1))>>)
    /\ UNCHANGED <<status, layers, model, optimizer, events, ranges, hist>>
    /\ UNCHANGED aux

(* one iteration of predict's loop; after the last layer compute_loss,     *)
(* compute_loss_gradient and the copy that backward_propagation starts from *)
DeepForward ==
    /\ pc = "forward" /\ status = "running"
    /\ LET current_layer  == call.args[1]
           current_output == call.args[2]
       IN IF current_layer # NULL
          THEN LET r == forward_pass(layers[current_layer], current_layer,
                                     current_output)
               IN /\ layers' = [layers EXCEPT ![current_layer] = r.layer]
                  /\ status' = IF r.ok THEN status ELSE "exited"
                  /\ call' = IF r.ok
                             THEN Call("fit", "running", 0,
                                       <<layers[current_layer].next, r.output>>)
                             ELSE Call("fit", "exit", 0, <<>>)
                  /\ pc' = pc
          ELSE LET y_batch == DataMatrix(1, fit.y.cols, 0, 1)
               IN /\ IF compute_loss_ok(y_batch, current_output)
                     THEN /\ pc' = "backward"
                          /\ status' = status
                          /\ call' = Call("fit", "running", 0,
                                          <<Len(layers),
                                            copy_matrix(compute_loss_gradient(
                                                           y_batch, current_output))>>)
                     ELSE /\ pc' = pc
                          /\ status' = "exited"
                          /\ call' = Call("fit", "exit", 0, <<>>)
                  /\ layers' = layers
    /\ UNCHANGED <<model, optimizer, fit, events, ranges, hist>>
    /\ UNCHANGED aux

(* one iteration of backward_propagation's loop, from the last layer down; *)
(* after layer 0 update_model_weights starts at the input layer            *)
DeepBackward ==
    /\ pc = "backward" /\ status = "running"
    /\ LET i        == call.args[1]
           gradient == call.args[2]
       IN IF i >= 1
          THEN LET r == backward_pass(layers[i], i, gradient)
               IN /\ layers' = [layers EXCEPT ![i] = r.layer]
                  /\ status' = IF r.ok THEN status ELSE "exited"
                  /\ call' = IF r.ok
                             THEN Call("fit", "running", 0, <<i - 1, r.prev_gradient>>)
                             ELSE Call("fit", "exit", 0, <<>>)
                  /\ pc' = pc
          ELSE /\ pc' = "update"
               /\ call' = Call("fit", "running", 0, <<model.input_layer, 0>>)
               /\ UNCHANGED <<layers, status>>
    /\ UNCHANGED <<model, optimizer, fit, events, ranges, hist>>
    /\ UNCHANGED aux

(* one iteration of update_model_weights's loop; after the last layer the  *)
(* next epoch's batch step, or fit returns                                 *)
DeepUpdate ==
    /\ pc = "update" /\ status = "running"
    /\ LET current     == call.args[1]
           layer_index == call.args[2]
       IN IF current # NULL
          THEN LET r == update_weights(layers[current], optimizer, layer_index)
               IN /\ layers' = [layers EXCEPT ![current] = r.layer]
                  /\ optimizer' = r.opt
                  /\ status' = IF r.ok THEN status ELSE "exited"
                  /\ call' = IF r.ok
                             THEN Call("fit", "running", 0,
                                       <<layers[current].next, layer_index + 1>>)
                             ELSE Call("fit", "exit", 0, <<current, layer_index>>)
                  /\ UNCHANGED <<pc, fit>>
          ELSE /\ IF fit.epoch + 1 < fit.epochs
                  THEN /\ pc' = "forward"
                       /\ fit' = [fit EXCEPT !.epoch = @ + 1]
                       /\ call' = Call("fit", "running", 0,
                                       <<model.input_layer,
                                         copy_matrix(DataMatrix(1, fit.X.cols, 0, 1))>>)
                  ELSE /\ pc' = "idle"
                       /\ fit' = FitIdle
                       /\ call' = Call("fit", "ok", 0, <<>>)
               /\ UNCHANGED <<layers, optimizer, status>>
    /\ UNCHANGED <<model, events, ranges, hist>>
    /\ UNCHANGED aux

NextDeep ==
    \/ DeepAddLayer
    \/ DeepCompile
    \/ DeepFit
    \/ DeepForward
    \/ DeepBackward
    \/ DeepUpdate

SpecDeep == InitDeep /\ [][NextDeep]_vars

(* the number of updates the layer at position k (from 0) has received *)
UpdatesAt(k) == layers[k + 1].weights.ver

(* C29: Adam keeps moments for the positions 0 .. 99 only and never        *)
(* touches a moment of a position >= 100: the update of the layer at       *)
(* position 100 is rejected and ends the process with layers and optimizer *)
(* as they were, so fit on an Adam model of more than 100 layers ends in   *)
(* its first batch step with the layers 0 .. 99 updated once.  add_layer   *)
(* and compile accept such a model, and with SGD every layer is updated.   *)
C29_AdamLayerLimit ==
    [][/\ DOMAIN optimizer'.moments \subseteq 0..(max_layers - 1)
       /\ (DeepUpdate /\ call.args[1] # NULL /\ optimizer.type = "ADAM"
             /\ call.args[2] >= max_layers) =>
             /\ status' = "exited"
             /\ layers' = layers
             /\ optimizer' = optimizer
             /\ fit.epoch = 0
             /\ \A k \in 0..(Len(layers) - 1) :
                   UpdatesAt(k) = IF k < max_layers THEN 1 ELSE 0
       /\ (DeepUpdate /\ call.args[1] # NULL
             /\ (optimizer.type = "SGD" \/ call.args[2] < max_layers)) =>
             /\ status' = "running"
             /\ layers'[call.args[1]].weights.ver = UpdatesAt(call.args[2]) + 1
       /\ (DeepAddLayer /\ call'.args[1] = layers[Len(layers)].output_size) =>
             /\ status' = "running"
             /\ Len(layers') = Len(layers) + 1
       /\ (DeepCompile /\ call'.args[Len(call'.args)] > 0) =>
             /\ status' = "running"
             /\ model'.is_compiled = 1]_vars

(* fit ended at position 100 of an Adam model of more than 100 layers *)
C29_Witness ==
    /\ status = "exited"
    /\ call = Call("fit", "exit", 0, <<max_layers + 1, max_layers>>)
    /\ optimizer.type = "ADAM"
    /\ optimizer.timestep = max_layers
    /\ Len(layers) > max_layers
    /\ UpdatesAt(max_layers - 1) = 1
    /\ UpdatesAt(max_layers) = 0

(* fit returned on an SGD model of more than 100 layers *)
C29_WitnessSGD ==
    /\ status = "running"
    /\ call = Call("fit", "ok", 0, <<>>)
    /\ optimizer.type = "SGD"
    /\ Len(layers) > max_layers
    /\ UpdatesAt(Len(layers) - 1) = MaxSteps

(* ------------------------- the two fits, side by side ------------------ *)
(* Both versions of fit are run on the model as it is and on the same      *)
(* arguments; the program continues with the result of the second, and the *)
(* call record keeps the arguments, the model before the call and both     *)
(* results.                                                                *)
(* The parts of the arguments a call never reads are not enumerated: a     *)
(* rejected call reads the row counts only, and a call of no epoch reads   *)
(* neither the widths nor the batch size.                                  *)
TwoFits ==
    /\ Idle
    /\ call.op # "fit"
    /\ \E xrows \in 1..MaxSamples : \E yrows \in {xrows, xrows + 1} :
       \E epochs \in IF fit_rejected(model, [rows |-> xrows], [rows |-> yrows])
                      THEN {1} ELSE -1..MaxSteps :
       \E xcols \in IF epochs > 0 THEN Dims ELSE {1} :
       \E ycols \in IF epochs > 0 THEN Dims ELSE {1} :
       \E batch_size \in IF epochs > 0 THEN 0..(xrows + 1) ELSE {0} :
         LET X == [rows |-> xrows, cols |-> xcols, nan |-> {}]
             y == [rows |-> yrows, cols |-> ycols, nan |-> {}]
             steps == IF epochs > 0 /\ ~fit_rejected(model, X, y)
                      THEN epochs * fit_locals(X, y, epochs, batch_size).num_batches
                      ELSE 0
             a == fit_fail_fast(model, layers, optimizer, X, y, epochs, batch_size)
             b == fit_print_return(model, layers, optimizer, X, y, epochs, batch_size)
         IN /\ hist.total + steps <= MaxSteps
            /\ hist' = [hist EXCEPT !.total = @ + steps]
            /\ layers' = b.layers
            /\ optimizer' = b.opt
            /\ status' = IF b.outcome = "exit" THEN "exited" ELSE status
            /\ call' = Call("fit", b.outcome, 0,
                            <<[X |-> X, y |-> y, layers |-> layers,
                               optimizer |-> optimizer], a, b>>)
    /\ UNCHANGED <<model, pc, fit, events, ranges>>
    /\ UNCHANGED aux

(* the scenario: a model is built and compiled, then fit is called once *)
TwoFitsLayer == call.op # "fit" /\ AddLayer

TwoFitsCompile == call.op # "fit" /\ Compile

NextTwoFits == TwoFitsLayer \/ TwoFitsCompile \/ TwoFits

SpecTwoFits == Init /\ [][NextTwoFits]_vars

(* the data of the last call of fit pass every check of the batch step *)
ValidData ==
    /\ call.args[1].X.rows = call.args[1].y.rows
    /\ call.args[1].X.cols = layers[model.input_layer].input_size
    /\ call.args[1].y.cols = layers[model.output_layer].output_size

(* C26: on a compiled model and valid data (X.rows = y.rows, no NaN,       *)
(* widths matching the model) the fail-fast fit and the print-and-return   *)
(* fit make the same calls in the same order and end with the same layers  *)
(* and optimizer state; on rejected input (model not compiled, or          *)
(* X.rows # y.rows) the first ends the process and the second returns,     *)
(* both with the model as it was.                                          *)
C26_TwoFitsAgree ==
    call.op = "fit" =>
       LET before == call.args[1]
           a == call.args[2]
           b == call.args[3]
       IN /\ (model.is_compiled # 0 /\ ValidData) =>
                /\ a.outcome = "ok" /\ b.outcome = "ok"
                /\ a.log = b.log
                /\ a.layers = b.layers
                /\ a.opt = b.opt
          /\ (model.is_compiled = 0 \/ before.X.rows # before.y.rows) =>
                /\ a.outcome = "exit"
                /\ b.outcome = "return"
                /\ a.layers = before.layers /\ a.opt = before.optimizer
                /\ b.layers = before.layers /\ b.opt = before.optimizer
                /\ layers = before.layers /\ optimizer = before.optimizer

(* two batch steps of Adam on a model of two layers, run by both versions *)
C26_Witness ==
    /\ call.op = "fit"
    /\ call.outcome = "ok"
    /\ model.is_compiled # 0
    /\ Len(layers) = 2
    /\ ValidData
    /\ optimizer.type = "ADAM"
    /\ optimizer.timestep = 4
    /\ Len(call.args[2].log) > 0
    /\ call.args[2].layers # call.args[1].layers

(* a call both versions reject *)
C26_WitnessRejected ==
    /\ call.op = "fit"
    /\ call.outcome = "return"
    /\ model.is_compiled # 0
    /\ call.args[2].outcome = "exit"

(* ------------------------- who owns which matrix ------------------------ *)
(* The caller builds a model layer by layer, compiles it once, allocates X  *)
(* and y, and calls forward_pass, predict and fit; it releases what it      *)
(* owns: the matrices it was returned and its own X and y.                  *)
MaxOps == 3

MemDense ==
    /\ mem.layers < MaxLayers /\ mem.optimizer = "none" /\ mem.calls = 0
    /\ mem' = [run(mem, Dense_trace(mem.layers + 1)) EXCEPT !.layers = mem.layers + 1]
    /\ call' = Call("Dense", "ok", mem.layers + 1, <<>>)
    /\ UNCHANGED <<status, layers, model, optimizer, pc, fit, events, ranges,
                   hist, disk, heap, split, rng, unit>>

MemCompile ==
    /\ mem.optimizer = "none" /\ mem.layers >= 1
    /\ \E type \in Optimizers :
          /\ mem' = [mem EXCEPT !.optimizer = type]
          /\ call' = Call("compile", "ok", 0, <<type>>)
    /\ UNCHANGED <<status, layers, model, optimizer, pc, fit, events, ranges,
                   hist, disk, heap, split, rng, unit>>

(* the caller creates its data, X and then y, before it uses the model *)
MemData ==
    /\ mem.optimizer # "none" /\ mem.calls = 0 /\ mem.steps = 0
    /\ \E s \in {<<"X", 0>>, <<"y", 0>>} :
          /\ mem.env[s] = NULL
          /\ s[1] = "y" => mem.env[<<"X", 0>>] # NULL
          /\ mem' = run(mem, <<New(s)>>)
          /\ call' = Call("create_matrix", "ok", 0, <<s[1]>>)
    /\ UNCHANGED <<status, layers, model, optimizer, pc, fit, events, ranges,
                   hist, disk, heap, split, rng, unit>>

(* the caller releases a matrix it owns and forgets the pointer *)
MemFree ==
    /\ \E s \in CallerSlots :
          /\ mem.env[s] # NULL /\ mem.calls < MaxOps
          /\ mem' = [run(mem, <<Free(s), Forget(s)>>) EXCEPT !.calls = mem.calls + 1]
          /\ call' = Call("free_matrix", "ok", 0, <<s[1]>>)
    /\ UNCHANGED <<status, layers, model, optimizer, pc, fit, events, ranges,
                   hist, disk, heap, split, rng, unit>>

MemForward ==
    /\ mem.env[<<"X", 0>>] # NULL /\ mem.env[<<"ret", 0>>] = NULL
    /\ mem.calls < MaxOps
    /\ \E i \in 1..mem.layers :
          /\ mem' = [run(mem, forward_pass_trace(i, <<"X", 0>>, <<"ret", 0>>))
                       EXCEPT !.calls = mem.calls + 1]
          /\ call' = Call("forward_pass", "ok", i, <<>>)
    /\ UNCHANGED <<status, layers, model, optimizer, pc, fit, events, ranges,
                   hist, disk, heap, split, rng, unit>>

MemPredict ==
    /\ mem.env[<<"X", 0>>] # NULL /\ mem.env[<<"ret", 0>>] = NULL
    /\ mem.layers >= 1 /\ mem.calls < MaxOps
    /\ mem' = [run(mem, predict_trace(mem.layers, <<"X", 0>>, <<"ret", 0>>))
                 EXCEPT !.calls = mem.calls + 1]
    /\ call' = Call("predict", "ok", 0, <<>>)
    /\ UNCHANGED <<status, layers, model, optimizer, pc, fit, events, ranges,
                   hist, disk, heap, split, rng, unit>>

(* one batch step of a fit that runs to its end *)
MemFitStep ==
    /\ mem.optimizer # "none" /\ mem.steps < MaxSteps
    /\ mem.env[<<"X", 0>>] # NULL /\ mem.env[<<"y", 0>>] # NULL
    /\ mem' = [run(mem, fit_step_trace(mem, mem.optimizer, mem.layers))
                 EXCEPT !.steps = mem.steps + 1]
    /\ call' = Call("fit", "ok", 0, <<>>)
    /\ UNCHANGED <<status, layers, model, optimizer, pc, fit, events, ranges,
                   hist, disk, heap, split, rng, unit>>

NextMem ==
    \/ MemDense
    \/ MemCompile
    \/ MemData
    \/ MemFree
    \/ MemForward
    \/ MemPredict
    \/ MemFitStep

SpecMem == Init /\ [][NextMem]_vars

(* the pointers that own a matrix: the fields of the layers, the moments of *)
(* the optimizer and the variables of the caller                            *)
Owners == {s \in Slots : s[2] >= 1 \/ s \in CallerSlots}

CacheSlots == Caches \X (1..MaxLayers)

(* C23: no matrix is shared between owners: the matrix forward_pass or     *)
(* predict returns is another object than the layer's cached input, z and  *)
(* output and than the caller's input, so after the caller has released    *)
(* what it was returned or its own input every cache a layer holds is      *)
(* still an allocated matrix, and nothing was read or released through a   *)
(* pointer to a released matrix.                                           *)
C23_NoSharedMatrix ==
    /\ mem.bad = {}
    /\ \A c \in CacheSlots : mem.env[c] # NULL => mem.env[c] \in mem.live
    /\ \A s \in Owners : \A t \in Owners :
          (s # t /\ mem.env[s] # NULL) => mem.env[s] # mem.env[t]

C23_Witness ==
    /\ call.op = "free_matrix" /\ call.args = <<"ret">>
    /\ mem.layers = MaxLayers
    /\ \A c \in CacheSlots : mem.env[c] \in mem.live
    /\ mem.env[<<"X", 0>>] \in mem.live

C23_WitnessInput ==
    /\ call.op = "free_matrix" /\ call.args = <<"X">>
    /\ mem.env[<<"ret", 0>>] \in mem.live
    /\ mem.env[<<"input", 1>>] \in mem.live

(* what is allocated between two batch steps: the layers' parameters and   *)
(* gradients, their caches, the moments and what the caller holds          *)
Held(h) == {h.env[s] : s \in Owners} \ {NULL, Dangling}

BatchStep == call'.op = "fit" /\ mem'.steps = mem.steps + 1

(* C27: a batch step of fit allocates no net memory: after the step every  *)
(* allocated matrix is one a layer, the optimizer or the caller holds, the *)
(* parameters, gradients and the caller's matrices are the ones from       *)
(* before, each layer has its three caches, the moments exist from the     *)
(* first Adam step on and stay the same matrices afterwards, the number of *)
(* allocated matrices grows only by the caches and moments that did not    *)
(* exist before, and no temporary was released twice or used after its     *)
(* release.                                                                *)
C27_FitStepNoNetAllocation ==
    [][BatchStep =>
         /\ mem'.bad = {}
         /\ mem'.live = Held(mem')
         /\ \A s \in Owners :
               s[1] \notin Caches \cup Moments => mem'.env[s] = mem.env[s]
         /\ \A i \in 1..mem.layers : \A c \in Caches : mem'.env[<<c, i>>] \in mem'.live
         /\ \A i \in 1..mem.layers : \A m \in Moments :
               /\ (mem'.env[<<m, i>>] \in mem'.live) <=> (mem.optimizer = "ADAM")
               /\ mem.steps >= 1 => mem'.env[<<m, i>>] = mem.env[<<m, i>>]
         /\ Cardinality(mem'.live) = Cardinality(mem.live)
               + Cardinality({c \in CacheSlots : c[2] <= mem.layers /\ mem.env[c] = NULL})
               + Cardinality({m \in Moments \X (1..mem.layers) :
                                 mem.optimizer = "ADAM" /\ mem.env[m] = NULL})
    ]_vars

C27_Witness ==
    /\ call.op = "fit" /\ mem.steps = MaxSteps /\ mem.optimizer = "ADAM"
    /\ mem.layers = MaxLayers
    /\ Cardinality(mem.live) = 11 * MaxLayers + 2

C27_WitnessSGD ==
    /\ call.op = "fit" /\ mem.steps = 1 /\ mem.optimizer = "SGD"
    /\ mem.env[<<"ret", 0>>] \in mem.live
    /\ Cardinality(mem.live) = 7 * mem.layers + 3

====
